---- MODULE Spec2Model ----
(***************************************************************************)
(* The Particle Storm kernel: Phaser.ParticleStorm.Emitter (pool, active   *)
(* list, spawning, per-frame update) and Phaser.ParticleStorm.Particle     *)
(* (reset/create, step, emitChild, setLife, kill).                         *)
(*                                                                         *)
(* Numbers.  Times (elapsedTime, age, delay, lifespan) are milliseconds.   *)
(* The fractions life, _lastPercent and _numToEmit are fixed point with    *)
(* One standing for 1.0; an emission rate is in One-units per millisecond  *)
(* (2 is 0.002 children per ms).  All lifespans of the data list divide    *)
(* One * (every elapsed time), so age / lifespan is exact.                 *)
(*                                                                         *)
(* Particles are identified by their position in `parts`, the sequence of  *)
(* every Particle object the emitter has constructed; Null is `null`.      *)
(*                                                                         *)
(* Emitter.batch is the list of the particles emitParticle has pushed      *)
(* since emit last emptied it.  Emitter._step stays (0, 0): no config of   *)
(* the model carries xStep or yStep.  An exception an operation throws is  *)
(* kept in `error`, with the state the operation had reached.              *)
(*                                                                         *)
(* An operation is a function from World to World, built from operators    *)
(* that take the values computed so far as parameters; an action commits   *)
(* the world its operation returns.  The scenarios share the operations:   *)
(* Spec (seed, emit, update at a steady frame rate), SpecLife (one         *)
(* top-level particle at a time, frames of varying length, setLife),       *)
(* SpecKill (the same with kill in place of setLife), SpecChild (badly     *)
(* authored emission descriptors), SpecDestroy (Spec ended by destroy),    *)
(* SpecPause (paused, plugin and manual updates), SpecEmission (parents   *)
(* emitting at a fixed rate), SpecTarget (particles heading for a target), *)
(* SpecTimer (delayed and repeating emits, clearData), SpecLate (the timer *)
(* firing after destroy), SpecCrowd (several particles of different       *)
(* lifespans in the list), SpecBatchDelay (emits with and without a       *)
(* config delay) and SpecBurst (emission descriptors with `at` entries).   *)
(* Pure functions have scenarios of their own, which draw the arguments at *)
(* the start: SpecGraph (control curves evaluated by Graph), SpecGravity   *)
(* (GravityWell.step) and SpecKin (Transform.init and inherit for a child  *)
(* of a parent).  SpecBody follows one Particle with its whole Transform   *)
(* (position, velocity, acceleration, scale, rotation) through reset,      *)
(* create and step.                                                        *)
(***************************************************************************)
EXTENDS Integers, Sequences, FiniteSets, TLC

\* ------------------------------------------------------------- bounds
\* Particle objects constructed at most (seeded or allocated by a spawn).
MaxParticles == 2
\* Largest _age, in steps of the shortest elapsed time, an update may reach.
MaxAgeTicks == 4
\* Largest qty passed to Emitter.seed.
MaxSeed == 2
\* Largest config.total passed to Emitter.emit.
MaxTotal == 2
\* onInherit results drawn per operation; later calls return true.
MaxInherit == 2
\* Particle.setLife calls made by the game in one run.
MaxSetLife == 1
\* The events Emitter.timer may hold, and the emit calls asking for a repeat.
MaxTimers == 1
MaxRepeatCalls == 1

\* ------------------------------------------------------------- numbers
One == 1000
Null == 0
\* game.time.elapsed, as Emitter.update reads it: a short and a long frame.
ElapsedValues == {250, 500}
MaxAge == MaxAgeTicks * 250

Min(a, b) == IF a < b THEN a ELSE b
Max(a, b) == IF a > b THEN a ELSE b
Abs(a) == IF a < 0 THEN 0 - a ELSE a
Sign(a) == IF a < 0 THEN 0 - 1 ELSE IF a > 0 THEN 1 ELSE 0

\* a / b for b > 0, rounded towards zero.
Quotient(a, b) == Sign(a) * (Abs(a) \div b)
SeqSet(s) == {s[i] : i \in 1..Len(s)}
RemoveAt(s, i) == SubSeq(s, 1, i - 1) \o SubSeq(s, i + 1, Len(s))
NoDup(s) == \A i, j \in 1..Len(s) : i # j => s[i] # s[j]

\* ------------------------------------------------------------- data
\* What the `name` of an emission descriptor may be: null (or missing), a
\* string, or an object with an `at` list of [time, value] entries.
NameNull == [type |-> "null", key |-> "", at |-> <<>>]
NameKey(key) == [type |-> "string", key |-> key, at |-> <<>>]
NameAt(at) == [type |-> "object", key |-> "", at |-> at]

\* Phaser.ParticleStorm.BASE_EMIT: no child name, rate 0, inherit true.
BaseEmit == [name |-> NameNull, value |-> 0, inherit |-> TRUE]

\* The particle data registered with the plugin (ParticleStorm.dataList).
\* emit is the template's `emit` object; hasEmit says whether it has one.
\* A template has either vx and vy (pixels per frame) or a target.
DataList ==
  [basic   |-> [lifespan |-> 1000, keepAlive |-> FALSE, delay |-> 0,
                ignoreForce |-> FALSE, vx |-> 2, vy |-> 0,
                hasEmit |-> FALSE, emit |-> BaseEmit],
   forever |-> [lifespan |-> 0, keepAlive |-> FALSE, delay |-> 0,
                ignoreForce |-> FALSE, vx |-> 1, vy |-> 0,
                hasEmit |-> FALSE, emit |-> BaseEmit],
   keep    |-> [lifespan |-> 500, keepAlive |-> TRUE, delay |-> 0,
                ignoreForce |-> TRUE, vx |-> 0, vy |-> 0,
                hasEmit |-> FALSE, emit |-> BaseEmit],
   late    |-> [lifespan |-> 500, keepAlive |-> FALSE, delay |-> 500,
                ignoreForce |-> FALSE, vx |-> 0, vy |-> 3,
                hasEmit |-> TRUE,
                emit |-> [name |-> NameKey("spark"), value |-> 2,
                          inherit |-> TRUE]],
   spark   |-> [lifespan |-> 250, keepAlive |-> FALSE, delay |-> 0,
                ignoreForce |-> FALSE, vx |-> 1, vy |-> 1,
                hasEmit |-> FALSE, emit |-> BaseEmit],
   fountain |-> [lifespan |-> 1000, keepAlive |-> FALSE, delay |-> 0,
                ignoreForce |-> FALSE, vx |-> 1, vy |-> 0,
                hasEmit |-> TRUE,
                emit |-> [name |-> NameKey("spark"), value |-> 4,
                          inherit |-> FALSE]],
   homing  |-> [lifespan |-> 1000, keepAlive |-> FALSE, delay |-> 0,
                ignoreForce |-> FALSE, target |-> [x |-> 100, y |-> 0],
                hasEmit |-> FALSE, emit |-> BaseEmit],
   settler |-> [lifespan |-> 500, keepAlive |-> TRUE, delay |-> 250,
                ignoreForce |-> FALSE, target |-> [x |-> 40, y |-> 80],
                hasEmit |-> FALSE, emit |-> BaseEmit],
   stay    |-> [lifespan |-> 500, keepAlive |-> FALSE, delay |-> 0,
                ignoreForce |-> FALSE, target |-> [x |-> 0, y |-> 0],
                hasEmit |-> FALSE, emit |-> BaseEmit],
   flash   |-> [lifespan |-> 500, keepAlive |-> TRUE, delay |-> 0,
                ignoreForce |-> FALSE, vx |-> 0, vy |-> 0,
                hasEmit |-> TRUE,
                emit |-> [name |-> NameKey("spark"), value |-> 0,
                          inherit |-> FALSE,
                          at |-> <<[time |-> 0, value |-> 1],
                                   [time |-> One, value |-> 1]>>]],
   burst   |-> [lifespan |-> 500, keepAlive |-> FALSE, delay |-> 250,
                ignoreForce |-> FALSE, vx |-> 0, vy |-> 0,
                hasEmit |-> TRUE,
                emit |-> [name |-> NameKey("spark"), value |-> 0,
                          inherit |-> FALSE,
                          at |-> <<[time |-> 0, value |-> 1],
                                   [time |-> 500, value |-> 1]>>]],
   pulse   |-> [lifespan |-> 0, keepAlive |-> FALSE, delay |-> 0,
                ignoreForce |-> FALSE, vx |-> 0, vy |-> 0,
                hasEmit |-> TRUE,
                emit |-> [name |-> NameKey("spark"), value |-> 0,
                          inherit |-> FALSE,
                          at |-> <<[time |-> 0, value |-> 1]>>]],
   orphan  |-> [lifespan |-> 1000, keepAlive |-> FALSE, delay |-> 0,
                ignoreForce |-> FALSE, vx |-> 1, vy |-> 0,
                hasEmit |-> TRUE,
                emit |-> [name |-> NameKey("ghost"), value |-> 2,
                          inherit |-> FALSE]],
   nameless |-> [lifespan |-> 1000, keepAlive |-> FALSE, delay |-> 0,
                ignoreForce |-> FALSE, vx |-> 1, vy |-> 0,
                hasEmit |-> TRUE,
                emit |-> [name |-> NameNull, value |-> 2, inherit |-> FALSE]],
   listless |-> [lifespan |-> 1000, keepAlive |-> FALSE, delay |-> 0,
                ignoreForce |-> FALSE, vx |-> 1, vy |-> 0,
                hasEmit |-> TRUE,
                emit |-> [name |-> NameAt(<<>>), value |-> 2,
                          inherit |-> FALSE]]]

DataKeys == DOMAIN DataList

\* ------------------------------------------------------------- state
VARIABLES
  parts,       \* every constructed Particle, by identity
  list,        \* Emitter.list: the active particles
  pool,        \* Emitter.pool: the particles waiting for reuse
  pCount,      \* Emitter._pCount
  delayCfg,    \* Emitter._delay (step is read only after emit has set it)
  enabled,     \* Emitter.enabled
  force,       \* Emitter.force
  scrollSpeed, \* Emitter.scrollSpeed
  signals,     \* which of Emitter.onComplete / onKill hold a Signal
  batch,       \* Emitter.batch
  renderer,    \* Emitter.renderer: Renderer, or Null once destroy has run
  error,       \* the exception the last operation threw ("" when none)
  op,          \* history: the operation that produced this state (for
               \* setLife: the particle and the life it had before the call)
  spawns,      \* history: one record per emitParticle call of that operation
  steps,       \* history: one record per Particle.step call of that operation
  kills,       \* history: one record per Particle.kill call of that operation
  hist,        \* history: per particle, since its life last started
  setLives,    \* history: number of Particle.setLife calls so far
  scen,        \* history: seeded / spawned counts of an undisturbed run
  graph,       \* the curve, the point and the result of a Graph evaluation
  well,        \* a GravityWell, a particle's transform, and its last step
  kin,         \* a parent's velocity, a child template, and the child spawned
  body,        \* one Particle with its whole Transform, and its last step
  timer,       \* Emitter.timer: the events waiting to call Emitter.emit
  dataList,    \* the keys registered in ParticleStorm.dataList
  made         \* history: emit calls asking for a repeat, repeats scheduled

\* What the emitter's operations never touch.
labs == <<graph, well, kin, body>>

\* What only the emit calls, the timer and clearData touch.
clock == <<timer, dataList, made>>

\* The emitter, its particles and the history of its operations.
emitter == <<parts, list, pool, pCount, delayCfg, enabled, force,
             scrollSpeed, signals, batch, renderer, error, op, spawns, steps,
             kills, hist, setLives, scen, timer, dataList, made>>

vars == <<parts, list, pool, pCount, delayCfg, enabled, force,
          scrollSpeed, signals, batch, renderer, error, op, spawns, steps,
          kills, hist, setLives, scen, graph, well, kin, body, timer,
          dataList,
          made>>

\* The state of a Particle as its constructor leaves it.
NewParticle ==
  [lifespan |-> 2000, keepAlive |-> FALSE, delay |-> 0, delayVisible |-> FALSE,
   life |-> 0, visible |-> FALSE, isComplete |-> FALSE, ignoreForce |-> FALSE,
   ignoreScrollSpeed |-> FALSE, emit |-> BaseEmit, age |-> 0, lastPercent |-> 0,
   numToEmit |-> 0, alive |-> FALSE, parent |-> Null,
   x |-> 0, y |-> 0, vx |-> 0, vy |-> 0]

\* scen follows the run "seed, then spawn, then let them die": seeded and
\* spawned count the particles seeded and spawned, died says a particle has
\* been returned to the pool by an update.  clean is dropped, and the counts
\* with it, once the run is disturbed: a seed after a spawn, a spawn after a
\* death, or a spawn that did not produce a live particle.
NewScen == [clean |-> TRUE, seeded |-> 0, spawned |-> 0, died |-> FALSE]
Disturbed == [clean |-> FALSE, seeded |-> 0, spawned |-> 0, died |-> FALSE]

\* hist[id]: the Particle.step calls and their elapsed times, the onComplete
\* dispatches, and the delay the particle started with, since its life last
\* started (spawn or setLife), the key it was spawned with, and how often
\* each entry of its emission `at` list has been counted by updateFrequency.
NewHist ==
  [steps |-> 0, dts |-> {}, completions |-> 0, delay0 |-> 0, key |-> "",
   triggers |-> <<>>]

\* ------------------------------------------------------------- world
\* The emitter with its particles, as one value the operations transform.
\* inh is the number of onInherit calls made so far in the operation.
World ==
  [parts |-> parts, list |-> list, pool |-> pool, pCount |-> pCount,
   delayCfg |-> delayCfg, force |-> force, scrollSpeed |-> scrollSpeed,
   signals |-> signals, batch |-> batch, renderer |-> renderer,
   error |-> "",
   spawns |-> <<>>, steps |-> <<>>, kills |-> <<>>, hist |-> hist,
   scen |-> scen, inh |-> 0]

\* Particle.onInherit is the subclass hook: the k-th call of an operation
\* returns the k-th drawn result, and true once the drawn ones are used up.
OnInherit(w, vs) == IF w.inh < Len(vs) THEN vs[w.inh + 1] ELSE TRUE

\* ------------------------------------------------------------- Particle
\* The start of Particle.reset, which is all of it when no data is given:
\* every property back to its default and `this.alive = false`.
BlankLive(p) ==
  [NewParticle EXCEPT !.parent = p.parent, !.x = p.x, !.y = p.y, !.alive = TRUE]
Blank(p) ==
  [NewParticle EXCEPT !.parent = p.parent, !.x = p.x, !.y = p.y]

\* Particle.reset followed by Particle.create when data is given: the particle
\* p (already holding its parent) spawned at (x, y) from the data under key.
\* inherited is whether the parent's emit.inherit is set, alive0 what
\* onInherit answered.  Transform.inherit runs at the end of Transform.init,
\* so a plain `inherit: true` clones the parent's velocity over the template's.
\* game.time.physicsElapsed, the length of a frame at the desired frame
\* rate, in ms.
PhysicsElapsed == 250

\* Particle.target(data) for a target without zone and speed, lifespan > 0:
\* the velocity that takes the particle from (x, y) to the target in
\* lifespan ms of frames of physicsElapsed each.  With angle the direction
\* to the target, cos(angle) * distance is target.x - x and sin(angle) *
\* distance is target.y - y.
TargetSpeed(x, y, target, lifespan) ==
  [x |-> Quotient((target.x - x) * 1000, lifespan),
   y |-> Quotient((target.y - y) * 1000, lifespan)]
TargetVelocity(x, y, target, lifespan) ==
  [x |-> Quotient((target.x - x) * PhysicsElapsed, lifespan),
   y |-> Quotient((target.y - y) * PhysicsElapsed, lifespan)]

\* The velocity the vx / vy / target part of Transform.init sets.
DataVelocity(d, x, y) ==
  IF "target" \in DOMAIN d
  THEN TargetVelocity(x, y, d.target, d.lifespan)
  ELSE [x |-> d.vx, y |-> d.vy]

ResetParticle(p, key, x, y, parentRec, inherited, alive0) ==
  LET blank == Blank(p)
  IN IF key \notin dataList
     THEN blank
     ELSE LET d == DataList[key]
          IN [blank EXCEPT
                !.lifespan = d.lifespan,
                !.keepAlive = d.keepAlive,
                !.delay = d.delay,
                !.ignoreForce = d.ignoreForce,
                !.x = x,
                !.y = y,
                !.vx = IF inherited THEN parentRec.vx
                       ELSE DataVelocity(d, x, y).x,
                !.vy = IF inherited THEN parentRec.vy
                       ELSE DataVelocity(d, x, y).y,
                !.emit = IF d.hasEmit THEN d.emit ELSE BaseEmit,
                !.visible = TRUE,
                !.alive = IF inherited THEN alive0 ELSE TRUE]

\* Particle.kill: the particle is turned off and renderer.kill called;
\* neither Emitter.list nor Emitter.pool is touched, and no signal is
\* dispatched.  by names the caller.
KillParticle(w, id, by) ==
  [w EXCEPT !.parts[id].alive = FALSE,
            !.kills = Append(@, [id |-> id, by |-> by, dispatched |-> FALSE])]

\* `(o.time > lastPercent || (o.time === 0 && lastPercent === 0)) &&
\* o.time <= lifePercent` of Emitter.updateFrequency.
Due(o, lastPercent, lifePercent) ==
  /\ o.time > lastPercent \/ (o.time = 0 /\ lastPercent = 0)
  /\ o.time <= lifePercent

\* The `at` loop of Emitter.updateFrequency from entry i on: the values of
\* the entries that are due are added up (every entry here carries a count,
\* not a chance between 0 and 1).
RECURSIVE AtTotal(_, _, _, _)
AtTotal(at, lastPercent, lifePercent, i) ==
  IF i > Len(at)
  THEN 0
  ELSE (IF Due(at[i], lastPercent, lifePercent) THEN at[i].value * One ELSE 0)
       + AtTotal(at, lastPercent, lifePercent, i + 1)

\* Emitter.updateFrequency.  A descriptor with an `at` list (a record with
\* the field `at` here; BASE_EMIT's null has none) gives the total of the
\* entries due; one without it and without a control curve gives the bare
\* rate times the elapsed time, since Graph.getParamArea returns
\* param.value whatever the life interval is.
UpdateFrequencyByLife(emit, elapsedTime, lastPercent, lifePercent) ==
  (emit.value * elapsedTime * (lifePercent - lastPercent)) \div One
UpdateFrequency(emit, elapsedTime, lastPercent, lifePercent) ==
  IF "at" \in DOMAIN emit
  THEN AtTotal(emit.at, lastPercent, lifePercent, 1)
  ELSE emit.value * elapsedTime

\* The count of how often each entry of the `at` list has been due, after
\* one more updateFrequency call.
Counted(triggers, emit, lastPercent, lifePercent) ==
  IF "at" \in DOMAIN emit
  THEN [i \in 1..Len(emit.at) |->
          (IF i <= Len(triggers) THEN triggers[i] ELSE 0)
          + (IF Due(emit.at[i], lastPercent, lifePercent) THEN 1 ELSE 0)]
  ELSE triggers

\* ------------------------------------------------------------- Emitter
\* What is left of the pool after `this.pool.pop()`.
PoolPopKept(q) == q
PoolPop(q) ==
  IF q = <<>> THEN q ELSE SubSeq(q, 1, Len(q) - 1)

\* The particle emitParticle works on: the one `this.pool.pop()` returns,
\* or a newly constructed one when the pool is empty.
PoolTop(w) ==
  IF w.pool = <<>> THEN Len(w.parts) + 1 ELSE w.pool[Len(w.pool)]

\* `if (particle.alive)` of emitParticle: the spawn goes on the active list.
AliveAnyway(p) == TRUE
Alive(p) == p.alive

\* `this.parent && this.parent.emit && this.parent.emit.inherit` of create.
Inherits(w, key, parent) ==
  key \in dataList /\ parent # Null /\ w.parts[parent].emit.inherit

\* The batch delay of emitParticle: `if (!parent && this._delay.enabled)`.
BatchDelay(w, parent, p) ==
  IF Alive(p) /\ parent = Null /\ w.delayCfg.enabled
  THEN [p EXCEPT !.delay = @ + w.delayCfg.start + (w.pCount * w.delayCfg.step),
                 !.delayVisible = w.delayCfg.visible]
  ELSE p

\* The particle emitParticle has popped or constructed, after
\* `particle.parent = parent`, reset and the batch delay.
Created(w, key, x, y, parent, vs) ==
  BatchDelay(w, parent,
    ResetParticle(
      [(IF w.pool = <<>> THEN NewParticle ELSE w.parts[PoolTop(w)])
         EXCEPT !.parent = parent],
      key, x, y,
      IF parent = Null THEN NewParticle ELSE w.parts[parent],
      Inherits(w, key, parent),
      OnInherit(w, vs)))

\* The end of emitParticle: particle id, now p, is pushed on the active list
\* and on the batch when it is alive; when it is not, it is killed, onKill
\* is dispatched if the emitter has the signal, and it is pushed on the pool.
Place(w, parent, id, p) ==
  [w EXCEPT
     !.parts = IF id > Len(@) THEN Append(@, p) ELSE [@ EXCEPT ![id] = p],
     !.hist = IF id > Len(@)
              THEN Append(@, [NewHist EXCEPT !.delay0 = p.delay])
              ELSE [@ EXCEPT ![id] = [NewHist EXCEPT !.delay0 = p.delay]],
     !.list = IF Alive(p) THEN Append(@, id) ELSE @,
     !.batch = IF Alive(p) THEN Append(@, id) ELSE @,
     !.kills = IF Alive(p)
               THEN @
               ELSE Append(@, [id |-> id, by |-> "spawn",
                               dispatched |-> w.signals.onKill]),
     !.pool = IF Alive(p) THEN PoolPop(@) ELSE Append(PoolPop(@), id),
     !.pCount = IF Alive(p) /\ parent = Null THEN @ + 1 ELSE @,
     !.scen = IF @.clean /\ ~@.died /\ Alive(p)
              THEN [@ EXCEPT !.spawned = @ + 1]
              ELSE Disturbed]

\* The record of one emitParticle call, taken when it returns in world w:
\* create() calls renderer.add and renderer.update only for a live particle.
SpawnRecord(w, id, key, parent, vetoed, rendered) ==
  [id |-> id, key |-> key, parent |-> parent, vetoed |-> vetoed,
   added |-> rendered, updated |-> rendered,
   inList |-> \E k \in 1..Len(w.list) : w.list[k] = id,
   inPool |-> \E k \in 1..Len(w.pool) : w.pool[k] = id]

Placed(w, key, parent, id, asked, vetoed, rendered) ==
  [w EXCEPT !.inh = IF asked THEN @ + 1 ELSE @,
            !.hist[id].key = key,
            !.spawns = Append(@, SpawnRecord(w, id, key, parent, vetoed, rendered))]

\* `this.renderer.add(this)` of Particle.create, reached by a particle that
\* is alive after the inherit veto: the renderer is the one reset was handed,
\* the emitter's, and reading `add` of null throws a TypeError.
AddThrows(w, p) == w.renderer = Null /\ p.alive

\* emitParticle left by that TypeError: the particle was popped from the
\* pool or constructed, and is pushed on no list.
Lost(w, id, p) ==
  [w EXCEPT !.error = "TypeError",
            !.pool = PoolPop(@),
            !.parts = IF id > Len(@) THEN @ ELSE [@ EXCEPT ![id] = p]]

Spawn(w, key, parent, id, p) ==
  IF AddThrows(w, p)
  THEN Lost(w, id, p)
  ELSE Placed(Place(w, parent, id, p), key, parent, id,
              Inherits(w, key, parent), Inherits(w, key, parent) /\ ~p.alive,
              p.alive)

\* Emitter.emitParticle(key, x, y, parent): pop a particle from the pool or
\* construct one, reset it, then push it on the active list when it is
\* alive, or kill it and push it back on the pool when it is not.
EmitParticle(w, key, x, y, parent, vs) ==
  Spawn(w, key, parent, PoolTop(w), Created(w, key, x, y, parent, vs))

\* The `at` entry Particle.getChildKey settles on: the value of the last
\* entry whose time is not above the particle's life.
RECURSIVE AtPick(_, _, _, _)
AtPick(at, life, i, ret) ==
  IF i > Len(at) \/ at[i].time > life
  THEN ret
  ELSE AtPick(at, life, i + 1, at[i].value)

\* Particle.getChildKey(param) for a param that is not an array: the key
\* picked from a non-empty `at` list, otherwise null ("").
GetChildKey(name, life) ==
  IF Len(name.at) > 0 THEN AtPick(name.at, life, 1, name.at[1].value) ELSE ""

\* `param.at` of getChildKey, evaluated on a null or undefined param,
\* throws a TypeError.
ChildKeyThrows(name) == name.type = "null"

\* `var key = this.emit.name; if (typeof key !== 'string') key =
\* this.getChildKey(this.emit.name)` of emitChild.
ChildKey(p) ==
  IF p.emit.name.type = "string"
  THEN p.emit.name.key
  ELSE GetChildKey(p.emit.name, p.life)

\* `if (key) this.emitter.emitParticle(key, x, y, this)` of emitChild.
EmitKey(w, id, key, vs) ==
  IF key # ""
  THEN EmitParticle(w, key, w.parts[id].x, w.parts[id].y, id, vs)
  ELSE w

\* `this._numToEmit -= 1.0` at the end of emitChild.
ConsumeAll(w, id) == [w EXCEPT !.parts[id].numToEmit = 0]
Consume(w, id) == [w EXCEPT !.parts[id].numToEmit = @ - One]

\* Particle.emitChild: the child key is worked out, a child of that key is
\* spawned at the parent's position when there is a key, and one unit is
\* taken off the accumulator.  When working out the key throws, nothing of
\* that is done.
EmitChild(w, id, vs) ==
  IF ChildKeyThrows(w.parts[id].emit.name)
  THEN [w EXCEPT !.error = "TypeError"]
  ELSE Consume(EmitKey(w, id, ChildKey(w.parts[id]), vs), id)

\* `while (this._numToEmit >= 1.0) this.emitChild()` of Particle.step; an
\* exception ends the loop.
RECURSIVE EmitChildren(_, _, _)
EmitChildren(w, id, vs) ==
  IF w.parts[id].numToEmit < One \/ w.error # ""
  THEN w
  ELSE EmitChildren(EmitChild(w, id, vs), id, vs)

\* Transform.step for a particle whose acceleration, facing and delta
\* Parameters are the BASE defaults: nothing moves while life is 0, otherwise
\* the position advances by the velocity.
TransformStep(p) ==
  IF p.life = 0
  THEN p
  ELSE [p EXCEPT !.x = @ + p.vx, !.y = @ + p.vy]

\* `if (this.delay) { if (this._age < this.delay)`: the step returns early.
StillDelayedNever(p, age1) == FALSE
StillDelayed(p, age1) == p.delay # 0 /\ age1 < p.delay

\* The age once the delay is dealt with: zero when a delay has just run out.
AgeKept(p, age1) == age1
AgeAfterDelay(p, age1) == IF p.delay # 0 THEN 0 ELSE age1

\* `if (this.lifespan > 0) this.life = Math.min(this._age / this.lifespan, 1.0)`.
\* Without the test the division by a zero lifespan gives Infinity, and the
\* minimum 1.0; without the minimum life follows the age past 1.0.
LifeDividing(p, age) ==
  IF p.lifespan > 0 THEN Min((age * One) \div p.lifespan, One) ELSE One
LifeUnclamped(p, age) ==
  IF p.lifespan > 0 THEN (age * One) \div p.lifespan ELSE p.life
Life(p, age) ==
  IF p.lifespan > 0 THEN Min((age * One) \div p.lifespan, One) ELSE p.life

\* Particle.step from the delay test to transform.step, for a particle that
\* is not held back by its delay and now has the given age.
StepLife(p, age, f) ==
  TransformStep([p EXCEPT !.age = age, !.delay = 0,
                          !.lastPercent = p.life, !.life = Life(p, age),
                          !.vx = IF p.ignoreForce THEN @ ELSE @ + f.x,
                          !.vy = IF p.ignoreForce THEN @ ELSE @ + f.y])

\* The first half of Particle.step, up to onUpdate: age, delay, life, force,
\* transform.  early is TRUE when the step returned while still delayed.
StepAge(p, elapsedTime, f) ==
  IF StillDelayed(p, p.age + elapsedTime)
  THEN [p |-> [p EXCEPT !.age = @ + elapsedTime], early |-> TRUE]
  ELSE [p |-> StepLife(p, AgeAfterDelay(p, p.age + elapsedTime), f),
        early |-> FALSE]

\* Whether this step is the one that completes the particle.
CompletesNever(p) == FALSE
Completes(p) == ~p.isComplete /\ p.life = One

\* Whether Particle.step tells the emitter to keep the particle.
StepResultNoKeep(p) == p.life < One
StepResult(p) == p.life < One \/ p.keepAlive

\* The properties of a particle a call changed.
Changed(pre, post) == {f \in DOMAIN pre : pre[f] # post[f]}

\* The record of one Particle.step call with elapsedTime dt on a particle
\* found as pre and left as post: whether the particle was still delayed
\* (its age plus dt below its delay), whether its delay ran out in this
\* step, what the call returned, how many emitParticle calls it made, which
\* properties it changed, the age, delay, life and accumulator it left,
\* the accumulator, the emission rate and the life it found, the position
\* it left,
\* whether the particle was alive, and how often the call passed the
\* particle to renderer.update (once when it returns while delayed, once
\* under `if (this.alive)`).
StepRecord(id, dt, pre, post, ret, children) ==
  [id |-> id,
   alive |-> pre.alive,
   updates |-> IF StillDelayed(pre, pre.age + dt) \/ pre.alive THEN 1 ELSE 0,
   numToEmit |-> post.numToEmit,
   numToEmit0 |-> pre.numToEmit,
   rate |-> pre.emit.value,
   life0 |-> pre.life,
   x |-> post.x, y |-> post.y,
   delayed |-> pre.delay # 0 /\ pre.age + dt < pre.delay,
   expired |-> pre.delay # 0 /\ pre.age + dt >= pre.delay,
   ignoreForce |-> pre.ignoreForce,
   ret |-> ret, children |-> children, changed |-> Changed(pre, post),
   age |-> post.age, delay |-> post.delay, life |-> post.life]

\* World w0 stepped particle id and is now w: the call is put on record.
Stepped(w0, w, id, dt, ret) ==
  [w EXCEPT
     !.hist[id].steps = @ + 1,
     !.hist[id].dts = @ \cup {dt},
     !.steps = Append(@, StepRecord(id, dt, w0.parts[id], w.parts[id], ret,
                                    Len(w.spawns) - Len(w0.spawns)))]

\* `if (this.alive)` of Particle.step: the accumulator takes the children
\* due for this interval and the whole ones are emitted.
StepEmit(w, id, elapsedTime, vs) ==
  IF w.parts[id].alive
  THEN EmitChildren(
         [w EXCEPT !.parts[id].numToEmit =
            @ + UpdateFrequency(w.parts[id].emit, elapsedTime,
                                w.parts[id].lastPercent, w.parts[id].life),
                   !.hist[id].triggers =
                      Counted(@, w.parts[id].emit, w.parts[id].lastPercent,
                              w.parts[id].life)],
         id, vs)
  ELSE w

\* `if (!this.isComplete && this.life === 1.0)` of Particle.step: the flag
\* is set and onComplete dispatched when the emitter has the signal.
StepComplete(w, id) ==
  IF Completes(w.parts[id])
  THEN [w EXCEPT !.parts[id].isComplete = TRUE,
                 !.hist[id].completions = IF w.signals.onComplete THEN @ + 1 ELSE @]
  ELSE w

\* The second half of Particle.step, from `if (this.alive)` to the return.
StepRest(w0, w, id, elapsedTime) ==
  Stepped(w0, w, id, elapsedTime, StepResult(w.parts[id]))

\* Particle.step(elapsedTime, force) on particle id, a being what the first
\* half made of the particle.  What the call returns is the ret of the
\* record it leaves in steps; a call that emitChild threw out of returns
\* nothing and leaves no record.
StepEnd(w0, w, id, elapsedTime) ==
  IF w.error # ""
  THEN w
  ELSE StepRest(w0, StepComplete(w, id), id, elapsedTime)

StepFrom(w, id, elapsedTime, vs, a) ==
  IF a.early
  THEN Stepped(w, [w EXCEPT !.parts[id] = a.p], id, elapsedTime, TRUE)
  ELSE StepEnd(w, StepEmit([w EXCEPT !.parts[id] = a.p], id, elapsedTime, vs),
               id, elapsedTime)

ParticleStep(w, id, elapsedTime, vs) ==
  StepFrom(w, id, elapsedTime, vs, StepAge(w.parts[id], elapsedTime, w.force))

\* `this.pool.push(p)` of Emitter.update: the dead particle joins the pool.
PoolPushNone(q, id) == q
PoolPush(q, id) == Append(q, id)

\* `p.transform.x += this.scrollSpeed.x` of Emitter.update.
Scroll(w, id) ==
  IF w.parts[id].ignoreScrollSpeed
  THEN w
  ELSE [w EXCEPT !.parts[id].x = @ + w.scrollSpeed.x,
                 !.parts[id].y = @ + w.scrollSpeed.y]

\* `if (!p.step(elapsed, this.force))` of Emitter.update, for the particle
\* at index i whose step has just been recorded: when the step returned
\* false the particle is killed, pushed on the pool and spliced out.  An
\* exception thrown by the step leaves the list as it is.
Reap(w, i) ==
  IF w.error # "" \/ w.steps[Len(w.steps)].ret
  THEN w
  ELSE [KillParticle(w, w.list[i], "update") EXCEPT
          !.pool = PoolPush(@, w.list[i]),
          !.list = RemoveAt(@, i),
          !.scen.died = w.scen.clean]

\* The loop of Emitter.update, from index i of the active list down to the
\* first: scroll the particle, step it, and reap it when the step says so.
\* The emitter of this model owns no gravity well, so the wells loop has
\* nothing to step.  An exception ends the loop.
RECURSIVE UpdateLoop(_, _, _, _)
UpdateLoop(w, i, elapsed, vs) ==
  IF i < 1 \/ w.error # ""
  THEN w
  ELSE UpdateLoop(
         Reap(ParticleStep(Scroll(w, w.list[i]), w.list[i], elapsed, vs), i),
         i - 1, elapsed, vs)

\* `var i = this.list.length - 1` of Emitter.update: the loop starts at
\* the last particle of the active list.
LoopStartBelow(w) == Len(w.list) - 1
LoopStart(w) == Len(w.list)

\* ------------------------------------------------------------- inputs
\* The force and scrollSpeed an emitter is constructed with.
ForceValues == {[x |-> 0, y |-> 1]}
ScrollValues == {[x |-> 1, y |-> 0]}
\* The config objects passed to Emitter.emit; "none" is a call without one.
\* delay is config.delay as a number, 0 standing for a config without it.
\* repeat is config.repeat, 0 standing for a config without it.
Configs == {[kind |-> "none", total |-> 1, delay |-> 0, repeat |-> 0]}
           \cup {[kind |-> "config", total |-> t, delay |-> d, repeat |-> 0] :
                   t \in 1..MaxTotal, d \in {0}}
\* The arguments of Particle.setLife.
SetLifeValues == {500}
\* The answers onInherit may give to the first n of its calls.
InheritResults(n) == [1..Min(n, MaxInherit) -> BOOLEAN]

\* ------------------------------------------------------------- Graph
\* The renderer object Emitter.init creates.
Renderer == 1

\* Control curves are lists of points; x and y are in thousandths.
\* Graph.CONTROL_LINEAR, CONTROL_REVERSE and CONTROL_YOYO.
ControlLinear == <<[x |-> 0, y |-> One], [x |-> One, y |-> 0]>>
ControlReverse == <<[x |-> 0, y |-> 0], [x |-> One, y |-> One]>>
ControlYoyo == <<[x |-> 0, y |-> 0], [x |-> 500, y |-> One], [x |-> One, y |-> 0]>>

\* The curves evaluated: from x = 0 to x = 1, with or without a point in
\* between; the three of the plugin are among them.
ControlYs == {0, 500, One}
ControlMids == {500}
Curves ==
  {<<[x |-> 0, y |-> a], [x |-> One, y |-> b]>> : a \in ControlYs, b \in ControlYs}
  \cup {<<[x |-> 0, y |-> a], [x |-> m, y |-> c], [x |-> One, y |-> b]>> :
           a \in ControlYs, m \in ControlMids, c \in ControlYs, b \in ControlYs}
  \cup {ControlLinear, ControlReverse, ControlYoyo}
\* Degenerate curves: a single point, and curves that start after x = 0 or
\* end before x = 1.
ShortCurves ==
  {<<[x |-> m, y |-> a]>> : m \in {0, 500, One}, a \in ControlYs}
  \cup {<<[x |-> 0, y |-> a], [x |-> 500, y |-> b]>> :
           a \in ControlYs, b \in ControlYs}
  \cup {<<[x |-> 500, y |-> a], [x |-> One, y |-> b]>> :
           a \in ControlYs, b \in ControlYs}
\* The points the curves are evaluated at.
Percents == {0, 250, 500, 750, One}
\* The `value` of the Parameters sampled.
ParamValues == {2, 3}

\* What a Graph function gives back: a number, or a TypeError thrown on
\* reading a property of undefined.
Return(v) == [threw |-> FALSE, value |-> v]
Throw == [threw |-> TRUE, value |-> 0]

\* The while loop of Graph.getControlValue with `point` at control[index]
\* (counted from 1): it walks on while point.x <= percent and returns
\* point.x when it stands on the last point; otherwise it leaves the loop
\* at the first point beyond percent.
RECURSIVE ControlWalk(_, _, _)
ControlWalk(control, percent, index) ==
  IF control[index].x <= percent
  THEN IF index >= Len(control)
       THEN [returned |-> TRUE, value |-> control[index].x, index |-> index]
       ELSE ControlWalk(control, percent, index + 1)
  ELSE [returned |-> FALSE, value |-> 0, index |-> index]

\* `prev.y + (percent - prev.x) * (point.y - prev.y) / (point.x - prev.x)`.
Interpolate(prev, point, percent) ==
  prev.y + ((percent - prev.x) * (point.y - prev.y)) \div (point.x - prev.x)

\* What getControlValue returns after the loop has ended as r.  When the
\* loop was never entered (percent below the first point's x) index is
\* still at the first point, `control[index - 1]` is undefined and
\* `prev.y` throws.
Walked(control, percent, r) ==
  IF r.returned
  THEN Return(r.value)
  ELSE IF r.index = 1
       THEN Throw
       ELSE Return(Interpolate(control[r.index - 1], control[r.index], percent))

\* Graph.getControlValue(control, percent): the first point's y when
\* percent is its x, else the result of the walk.
GetControlValue(control, percent) ==
  IF control[1].x = percent
  THEN Return(control[1].y)
  ELSE Walked(control, percent, ControlWalk(control, percent, 1))

\* The while loop of Graph.getValue: as that of getControlValue, but on the
\* last point it returns point.y.
RECURSIVE ValueWalk(_, _, _)
ValueWalk(control, percent, index) ==
  IF control[index].x <= percent
  THEN IF index >= Len(control)
       THEN [returned |-> TRUE, value |-> control[index].y, index |-> index]
       ELSE ValueWalk(control, percent, index + 1)
  ELSE [returned |-> FALSE, value |-> 0, index |-> index]

\* What getValue returns after the loop has ended as r: the interpolated
\* curve value times obj.value.
ValueWalked(obj, percent, r) ==
  IF r.returned
  THEN Return(r.value)
  ELSE IF r.index = 1
       THEN Throw
       ELSE Return(obj.value * Interpolate(obj.control[r.index - 1],
                                           obj.control[r.index], percent))

\* Graph.getValue(obj, percent) for a Parameter obj = {value, control} (an
\* empty control standing for none) and a given percent; the result is in
\* thousandths.  Without a control it is obj.value; at the first point's x
\* it is that point's y, at the last point's x that point's y; otherwise the
\* result of the walk.
GetValue(obj, percent) ==
  IF obj.control = <<>>
  THEN Return(obj.value * One)
  ELSE IF obj.control[1].x = percent
       THEN Return(obj.control[1].y)
       ELSE IF obj.control[Len(obj.control)].x = percent
            THEN Return(obj.control[Len(obj.control)].y)
            ELSE ValueWalked(obj, percent, ValueWalk(obj.control, percent, 1))

\* The scan of Graph.getControlValues from control[i] on: the points with
\* previousPercent < x < nowPercent, up to the first one at or beyond
\* nowPercent.
RECURSIVE Between(_, _, _, _)
Between(control, previousPercent, nowPercent, i) ==
  IF i > Len(control)
  THEN <<>>
  ELSE IF control[i].x > previousPercent
       THEN IF control[i].x < nowPercent
            THEN <<control[i]>> \o Between(control, previousPercent, nowPercent, i + 1)
            ELSE <<>>
       ELSE Between(control, previousPercent, nowPercent, i + 1)

\* Graph.getControlValues for previousPercent < nowPercent, first and last
\* being what getControlValue returned at the two ends.
GetControlValues(control, previousPercent, nowPercent, first, last) ==
  <<[x |-> previousPercent, y |-> first]>>
  \o Between(control, previousPercent, nowPercent, 1)
  \o <<[x |-> nowPercent, y |-> last]>>

\* The sum of getControlArea from points[i] on, `area += 0.5 * (next.x -
\* prev.x) * (prev.y + next.y)`, without the factor 0.5: areas are in
\* half-millionths, One * One standing for 0.5.
RECURSIVE Trapezoids(_, _)
Trapezoids(points, i) ==
  IF i > Len(points)
  THEN 0
  ELSE (points[i].x - points[i - 1].x) * (points[i - 1].y + points[i].y)
       + Trapezoids(points, i + 1)

\* getControlArea once the two ends have been evaluated as first and last.
AreaFrom(control, previousPercent, nowPercent, first, last) ==
  IF first.threw \/ last.threw
  THEN Throw
  ELSE Return(Trapezoids(GetControlValues(control, previousPercent, nowPercent,
                                          first.value, last.value), 2))

\* Graph.getControlArea(control, previousPercent, nowPercent) for
\* previousPercent < nowPercent.
GetControlArea(control, previousPercent, nowPercent) ==
  AreaFrom(control, previousPercent, nowPercent,
           GetControlValue(control, previousPercent),
           GetControlValue(control, nowPercent))

\* graph before any evaluation has been asked for: the curve, the Graph
\* function called last with its arguments (param is the Parameter's value,
\* previous and percent the life fractions), and what it gave back.
NoGraph ==
  [control |-> <<>>, fn |-> "", param |-> 0, previous |-> 0, percent |-> 0,
   value |-> 0, threw |-> FALSE, done |-> FALSE]

\* ------------------------------------------------------- GravityWell
\* Positions are in pixels, velocities in thousandths of a pixel per frame,
\* game.time.elapsed in ms; a distance is rounded down to whole pixels and
\* a velocity change towards zero to whole thousandths.
MaxWellSteps == 2

\* Math.sqrt of a whole number, rounded down.
Sqrt(n) == CHOOSE d \in 0..n : d * d <= n /\ (d + 1) * (d + 1) > n

\* new GravityWell(emitter, x, y, power, epsilon, gravity): the setters
\* store power * gravity and epsilon * epsilon.
GravityWell(x, y, power, epsilon, gravity) ==
  [x |-> x, y |-> y, active |-> TRUE, gravity |-> gravity,
   power |-> power * gravity, epsilon |-> epsilon * epsilon]

\* `var x = this.position.x - particle.transform.x` and the same for y.
Away(w, t) == [x |-> t.x - w.x, y |-> t.y - w.y]
Towards(w, t) == [x |-> w.x - t.x, y |-> w.y - t.y]

\* `if (dSq < this._epsilon) dSq = this._epsilon`.
Floored(w, dSq) == IF dSq < w.epsilon THEN w.epsilon ELSE dSq

\* The velocity after `value += c * factor`, with
\* factor = (_power * elapsed) / (dSq * d).
Pulled(value, c, w, elapsed, dSq, d) ==
  value + Quotient(c * w.power * elapsed * One, Floored(w, dSq) * d)

\* GravityWell.step(particle), from the offset on.
WellStepFrom(w, t, elapsed, o, dSq) ==
  IF dSq = 0
  THEN t
  ELSE [t EXCEPT !.vx = Pulled(t.vx, o.x, w, elapsed, dSq, Sqrt(dSq)),
                 !.vy = Pulled(t.vy, o.y, w, elapsed, dSq, Sqrt(dSq))]

WellOffset(w, t, elapsed, o) ==
  WellStepFrom(w, t, elapsed, o, (o.x * o.x) + (o.y * o.y))

GravityWellStep(w, t, elapsed) == WellOffset(w, t, elapsed, Towards(w, t))

\* The transform of a particle at (x, y) that does not move.
AtRest(x, y) == [x |-> x, y |-> y, vx |-> 0, vy |-> 0]

\* well before any GravityWell has been made: the well, the transform of
\* the particle it acts on, that transform before the last step, the
\* game.time.elapsed of that step and the number of steps so far.
NoWell ==
  [well |-> GravityWell(0, 0, 0, 0, 0), now |-> AtRest(0, 0),
   before |-> AtRest(0, 0), elapsed |-> 0, steps |-> 0]

\* --------------------------------------------------------- Transform
\* A Parameter as Transform.reset makes it, Object.create(BASE): nothing in
\* the plugin gives it a min or a max.  control is <<>> for null.
Base ==
  [value |-> 0, initial |-> 0, delta |-> 0, offset |-> 0,
   min |-> "undefined", max |-> "undefined", control |-> <<>>, calc |-> 0]

\* What a template can say for vx or vy: nothing, a number, or an object
\* with some of value, initial, delta, offset and a control curve (has
\* names the fields given; control is <<>> when there is none).
Unset ==
  [kind |-> "undefined", has |-> {}, value |-> 0, initial |-> 0,
   delta |-> 0, offset |-> 0, control |-> <<>>]
Number(n) == [Unset EXCEPT !.kind = "number", !.value = n]
Shaped(value, initial, delta, control) ==
  [kind |-> "object", has |-> {"value", "initial", "delta"},
   value |-> value, initial |-> initial, delta |-> delta, offset |-> 0,
   control |-> control]

\* Graph.fromData(data, obj), and the `typeof data.vx === 'number'`
\* shortcut of Transform.init, which does the same as its number branch.
FromData(data, obj) ==
  IF data.kind = "undefined"
  THEN obj
  ELSE IF data.kind = "number"
  THEN [obj EXCEPT !.value = data.value]
  ELSE [obj EXCEPT
          !.value = IF "value" \in data.has THEN data.value ELSE @,
          !.initial = IF "initial" \in data.has THEN data.initial ELSE @,
          !.delta = IF "delta" \in data.has THEN data.delta ELSE @,
          !.offset = IF "offset" \in data.has THEN data.offset ELSE @,
          !.control = IF data.control # <<>> THEN data.control ELSE @]

\* Graph.clone(src, dest).
CloneValue(src, dest) == [dest EXCEPT !.value = src.value]
Clone(src, dest) ==
  [dest EXCEPT !.value = src.value, !.initial = src.initial,
               !.delta = src.delta, !.offset = src.offset,
               !.min = src.min, !.max = src.max, !.control = src.control]

\* The velocity of a transform after reset and the vx / vy part of
\* Transform.init, for a template with neither `velocity` nor `target`.
TemplateVelocity(data) ==
  [x |-> FromData(data.vx, Base), y |-> FromData(data.vy, Base)]

\* Transform.inherit(parent) on the velocity: inherit is parent.emit.inherit,
\* "all" for `true`, otherwise the one property the object sets.
TransformInherit(inherit, parent, velocity) ==
  [x |-> IF inherit \in {"all", "vx", "velocity"}
         THEN Clone(parent.x, velocity.x) ELSE velocity.x,
   y |-> IF inherit \in {"all", "vy", "velocity"}
         THEN Clone(parent.y, velocity.y) ELSE velocity.y]

\* The velocity Transform.init leaves: the template first, and at the end
\* `if (parent && parent.emit && parent.emit.inherit) this.inherit(parent)`.
\* The transform.step() that Particle.create makes next runs at life 0 and
\* returns before it reaches the velocity.
TransformInit(data, inherit, parent) ==
  IF inherit = "none"
  THEN TemplateVelocity(data)
  ELSE TransformInherit(inherit, parent, TemplateVelocity(data))

\* kin before any child is spawned: the velocity of the parent, the
\* parent's emit.inherit, the child's template, the velocity of the child,
\* whether the child has just been spawned, and the number of forces the
\* parent has taken.
NoKin ==
  [parent |-> [x |-> Base, y |-> Base], inherit |-> "none",
   data |-> [vx |-> Unset, vy |-> Unset],
   child |-> [x |-> Base, y |-> Base], spawned |-> FALSE, pushes |-> 0]

\* ------------------------------------------------- a whole Particle
\* Positions and the values of velocity and acceleration are in whole
\* pixels, rotation in degrees, calc in thousandths (of a scale factor, of
\* a degree: the factor pi / 180 of rotation.calc is left out); a sampled
\* curve value is rounded down to whole pixels where it moves anything.
\* No template here has facingVelocity or facingAcceleration, so both
\* facing Parameters keep the null value and Transform.step passes over
\* its two facing branches.
Base1 == [Base EXCEPT !.value = 1, !.calc = One]
BaseNull == [Base EXCEPT !.value = "null"]

\* new Transform(particle): the Parameters are null until the first reset.
NewTransform ==
  [x |-> 0, y |-> 0,
   velocity |-> [x |-> Null, y |-> Null, facing |-> Null],
   acceleration |-> [x |-> Null, y |-> Null, facing |-> Null],
   scale |-> [x |-> Null, y |-> Null],
   rotation |-> Null]

\* Transform.reset: every Parameter is made anew from its BASE table; x
\* and y are left alone.
TransformReset(t) ==
  [t EXCEPT
     !.velocity = [x |-> Base, y |-> Base, facing |-> BaseNull],
     !.acceleration = [x |-> Base, y |-> Base, facing |-> BaseNull],
     !.scale = [x |-> Base1, y |-> Base1],
     !.rotation = Base]

\* Transform.init(x, y, data) for a template with vx, vy, ax, ay, scaleX,
\* scaleY and rotation (each a number, a Parameter object, or missing) and
\* a particle without parent.
TransformInitAll(t, x, y, data) ==
  [t EXCEPT
     !.x = x, !.y = y,
     !.velocity.x = FromData(data.vx, @),
     !.velocity.y = FromData(data.vy, @),
     !.acceleration.x = FromData(data.ax, @),
     !.acceleration.y = FromData(data.ay, @),
     !.scale.x = FromData(data.scaleX, @),
     !.scale.y = FromData(data.scaleY, @),
     !.rotation = FromData(data.rotation, @)]

\* `obj.value += obj.delta` and `obj.calc = obj.initial + getValue(obj,
\* life)`, on the Parameter with its delta already added.
Calc(obj, life) ==
  [obj EXCEPT !.calc = (obj.initial * One) + GetValue(obj, life).value]
Advance(obj, life) == Calc([obj EXCEPT !.value = @ + obj.delta], life)

\* Transform.step, first part: scale and rotation take their delta and
\* are sampled.
Posed(t, life) ==
  [t EXCEPT !.scale.x = Advance(@, life),
            !.scale.y = Advance(@, life),
            !.rotation = Advance(@, life)]

\* `obj.initial + getValue(obj, life)` in whole pixels.
Whole(obj, life) == obj.initial + (GetValue(obj, life).value \div One)

\* Transform.step, last part: the position takes the velocity.
Travelled(t, life) ==
  [t EXCEPT !.x = @ + Whole(t.velocity.x, life),
            !.y = @ + Whole(t.velocity.y, life)]

\* Transform.step, middle part: the velocity takes its delta and the
\* acceleration, whose delta has just been added.
Accelerated(t, ax, ay, life) ==
  Travelled([t EXCEPT !.acceleration.x = ax, !.acceleration.y = ay,
                      !.velocity.x.value =
                         @ + t.velocity.x.delta + Whole(ax, life),
                      !.velocity.y.value =
                         @ + t.velocity.y.delta + Whole(ay, life)],
            life)

Integrated(t, life) ==
  Accelerated(t,
              [t.acceleration.x EXCEPT !.value = @ + t.acceleration.x.delta],
              [t.acceleration.y EXCEPT !.value = @ + t.acceleration.y.delta],
              life)

\* `if (life === 0) return` of Transform.step.
FreshNever(life) == FALSE
Fresh(life) == life = 0

\* Transform.step for a particle at the given life.
TransformStepFrom(t, life) ==
  IF Fresh(life) THEN t ELSE Integrated(t, life)
TransformStepAll(t, life) == TransformStepFrom(Posed(t, life), life)

\* new Particle(emitter).
NewBodyParticle ==
  [lifespan |-> 2000, keepAlive |-> FALSE, delay |-> 0, life |-> 0,
   isComplete |-> FALSE, ignoreForce |-> FALSE, emit |-> BaseEmit,
   age |-> 0, lastPercent |-> 0, numToEmit |-> 0, alive |-> FALSE,
   transform |-> NewTransform]

\* Particle.reset up to `if (data !== undefined)`.
ParticleResetButAccumulator(p) ==
  [p EXCEPT !.transform = TransformReset(@), !.emit = BaseEmit,
            !.isComplete = FALSE, !.keepAlive = FALSE, !.delay = 0,
            !.ignoreForce = FALSE, !.alive = FALSE, !.lifespan = 2000,
            !.life = 0, !.age = 0, !.lastPercent = 0]
ParticleReset(p) ==
  [p EXCEPT !.transform = TransformReset(@), !.emit = BaseEmit,
            !.isComplete = FALSE, !.keepAlive = FALSE, !.delay = 0,
            !.ignoreForce = FALSE, !.alive = FALSE, !.lifespan = 2000,
            !.life = 0, !.age = 0, !.lastPercent = 0, !.numToEmit = 0]

\* `if (this.alive) { this.transform.step(); ...` of Particle.create.
CreateStep(p) ==
  IF p.alive
  THEN [p EXCEPT !.transform = TransformStepAll(@, p.life)]
  ELSE p

\* Particle.create(x, y, data) for a particle without parent, up to
\* `this.alive = true`.
ParticleMade(p, x, y, data) ==
  [p EXCEPT !.lifespan = data.lifespan,
            !.keepAlive = data.keepAlive,
            !.delay = data.delay,
            !.ignoreForce = data.ignoreForce,
            !.transform = TransformInitAll(@, x, y, data),
            !.emit = IF data.hasEmit THEN data.emit ELSE BaseEmit,
            !.alive = TRUE]

\* Particle.reset(renderer, x, y, data) followed by its create.
ParticleCreate(p, x, y, data) ==
  CreateStep(ParticleMade(ParticleReset(p), x, y, data))

\* Particle.step, the part before transform.step: age, delay, life, force.
Aged(p, age, f) ==
  [p EXCEPT !.age = age, !.delay = 0,
            !.lastPercent = p.life, !.life = Life(p, age),
            !.transform.velocity.x.value =
               IF p.ignoreForce THEN @ ELSE @ + f.x,
            !.transform.velocity.y.value =
               IF p.ignoreForce THEN @ ELSE @ + f.y]

\* Particle.step, the part after transform.step: the accumulator takes
\* the children due and every emitChild takes one unit off until less
\* than one is left (the children are those of the emission scenario);
\* then the completion.
Finished(p, elapsedTime) ==
  [p EXCEPT !.numToEmit =
               IF p.alive
               THEN (@ + UpdateFrequency(p.emit, elapsedTime, p.lastPercent,
                                         p.life)) % One
               ELSE @,
            !.isComplete = @ \/ Completes(p)]

\* Particle.step(elapsedTime, force) from the particle `a` that is about to
\* call transform.step.
BodyStepFrom(a, elapsedTime) ==
  Finished([a EXCEPT !.transform = TransformStepAll(@, a.life)], elapsedTime)

\* body before any particle is spawned: the particle, the key of its
\* template, the particle as the last Transform.step found it, the
\* particle as its last life left it, whether the last operation was a
\* spawn, whether it called Transform.step, where the particle was spawned,
\* and the numbers of spawns and of steps since the last spawn.
NoBody ==
  [now |-> NewBodyParticle, before |-> NewBodyParticle,
   worn |-> NewBodyParticle, data |-> "none",
   spawned |-> FALSE, stepped |-> FALSE, x |-> 0, y |-> 0,
   lives |-> 0, steps |-> 0]

\* ------------------------------------------------------------- actions
\* Nothing in the plugin catches an exception: one that escapes an
\* operation escapes the frame that called it, and the scenarios end there.
Running == error = ""

CommitWorld(w, name, arg) ==
  /\ parts' = w.parts
  /\ list' = w.list
  /\ pool' = w.pool
  /\ pCount' = w.pCount
  /\ delayCfg' = w.delayCfg
  /\ batch' = w.batch
  /\ renderer' = w.renderer
  /\ error' = w.error
  /\ spawns' = w.spawns
  /\ steps' = w.steps
  /\ kills' = w.kills
  /\ hist' = w.hist
  /\ scen' = w.scen
  /\ op' = [name |-> name, arg |-> arg]
  /\ setLives' = IF name = "setLife" THEN setLives + 1 ELSE setLives
  /\ UNCHANGED <<enabled, force, scrollSpeed, signals, labs>>

Commit(w, name, arg) ==
  /\ CommitWorld(w, name, arg)
  /\ UNCHANGED clock

\* The Emitter constructor and init: empty list, pool and batch, no signal.
InitEmitter ==
  /\ parts = <<>>
  /\ list = <<>>
  /\ pool = <<>>
  /\ pCount = 0
  /\ delayCfg = [enabled |-> FALSE, start |-> 0, step |-> 0, visible |-> FALSE]
  /\ enabled = TRUE
  /\ force \in ForceValues
  /\ scrollSpeed \in ScrollValues
  /\ signals = [onComplete |-> FALSE, onKill |-> FALSE]
  /\ batch = <<>>
  /\ renderer = Renderer
  /\ error = ""
  /\ timer = <<>>
  /\ dataList = DataKeys
  /\ made = [calls |-> 0, schedules |-> 0]
  /\ op = [name |-> "new", arg |-> 0]
  /\ spawns = <<>>
  /\ steps = <<>>
  /\ kills = <<>>
  /\ hist = <<>>
  /\ setLives = 0
  /\ scen = NewScen

Init ==
  /\ InitEmitter
  /\ graph = NoGraph
  /\ well = NoWell
  /\ kin = NoKin
  /\ body = NoBody

\* emitter.onComplete = new Phaser.Signal() / emitter.onKill = new
\* Phaser.Signal(), done while setting the emitter up, before it has
\* constructed a particle.
InstallSignals ==
  /\ parts = <<>>
  /\ ~signals.onComplete
  /\ signals' = [onComplete |-> TRUE, onKill |-> TRUE]
  /\ op' = [name |-> "install", arg |-> 0]
  /\ spawns' = <<>> /\ steps' = <<>> /\ kills' = <<>>
  /\ UNCHANGED <<parts, list, pool, pCount, delayCfg, enabled, force,
                 scrollSpeed, batch, renderer, error, hist, setLives, scen,
                 labs, clock>>

\* Emitter.seed(qty): qty constructed particles are pushed on the pool.
RECURSIVE SeedLoop(_, _)
SeedLoop(w, qty) ==
  IF qty = 0
  THEN w
  ELSE SeedLoop([w EXCEPT !.parts = Append(@, NewParticle),
                          !.hist = Append(@, NewHist),
                          !.pool = Append(@, Len(w.parts) + 1)], qty - 1)

Seed(qty) ==
  /\ Running
  /\ Len(parts) + qty <= MaxParticles
  /\ Commit([SeedLoop(World, qty) EXCEPT
               !.scen = IF @.clean /\ @.spawned = 0
                        THEN [@ EXCEPT !.seeded = @ + qty]
                        ELSE Disturbed],
            "seed", qty)

\* The no-zone loop of Emitter.emit: total calls of emitParticle.
RECURSIVE EmitLoop(_, _, _, _, _)
\* `if (!this.enabled || !this.parent.dataList[key]) return null` of
\* Emitter.emit.
RefusesPaused(key) == ~enabled
Refuses(key) == ~enabled \/ key \notin dataList

EmitLoop(w, key, x, y, n) ==
  IF n = 0 \/ w.error # ""
  THEN w
  ELSE EmitLoop(EmitParticle(w, key, x, y, Null, <<>>), key, x, y, n - 1)

\* Emitter.emit(key, x, y, config) as a function of the world.  A call that
\* is refused (emitter disabled, key not in the data list) changes nothing.
\* A call without config returns before the batch delay is looked at, so
\* _delay is left as the last call with a config set it.
EmitWorld(w, key, x, y, config) ==
  IF Refuses(key)
  THEN w
  ELSE IF config.kind = "none"
       THEN EmitParticle([w EXCEPT !.pCount = 0, !.batch = <<>>],
                         key, x, y, Null, <<>>)
       ELSE [EmitLoop([w EXCEPT
                         !.pCount = 0,
                         !.batch = <<>>,
                         !.delayCfg =
                            IF config.delay # 0
                            THEN [enabled |-> TRUE, start |-> config.delay,
                                  step |-> 0, visible |-> FALSE]
                            ELSE [@ EXCEPT !.enabled = FALSE]],
                      key, x, y, config.total)
               EXCEPT !.pCount = 0]

\* What Emitter.emit returns: null when it refuses the call, the particle
\* when there is no config, the batch otherwise.
EmitReturn(key, config) ==
  IF Refuses(key)
  THEN "null"
  ELSE IF config.kind = "none" THEN "particle" ELSE "batch"

\* `config.hasOwnProperty('repeat') ? config.repeat : 0`, for a call that
\* got as far as the repeat section.
Repeats(config) == IF config.kind = "none" THEN 0 ELSE config.repeat

\* Whether the caller asks for a repeat: N > 0 times, or -1 for ever.
Repeating(config) == Repeats(config) > 0 \/ Repeats(config) = 0 - 1

\* The config object after `delete config.repeat`: the object the timer
\* event hands to Emitter.emit when it fires.
Kept(config) == config
Deleted(config) == [config EXCEPT !.repeat = 0]

\* An event of Emitter.timer: timer.add (once), timer.repeat (left times)
\* or timer.loop (for ever), calling emit(key, x, y, config).
TimerEvent(kind, key, config, left) ==
  [kind |-> kind, key |-> key, config |-> config, left |-> left]

\* The repeat section of Emitter.emit, tm being the events of the timer.
Schedule(tm, key, config) ==
  IF Repeats(config) = 0 - 1
  THEN Append(tm, TimerEvent("loop", key, Deleted(config), 0))
  ELSE IF Repeats(config) > 0
  THEN Append(tm, TimerEvent("repeat", key, Deleted(config), Repeats(config)))
  ELSE tm

\* The events of the timer after Emitter.emit(key, x, y, config).
EmitTimer(tm, key, config) ==
  IF EmitReturn(key, config) = "null" THEN tm ELSE Schedule(tm, key, config)

\* The caller has made a call with this config: one more call asking for a
\* repeat, if it does, and as many more schedules as the timer has grown.
Made(config, byCaller, before, after) ==
  [calls |-> made.calls + (IF byCaller /\ Repeating(config) THEN 1 ELSE 0),
   schedules |-> made.schedules + (Len(after) - Len(before))]

\* Emitter.emit(key, 0, 0, config), called by `caller` (the game, "emit",
\* or the timer for an event of the given kind) when the timer holds the
\* events tm.
EmitCall(caller, event, key, config, tm) ==
  /\ \E w \in {EmitWorld(World, key, 0, 0, config)} :
     /\ Len(w.parts) <= MaxParticles
     /\ CommitWorld(w, caller,
                    [key |-> key, event |-> event,
                     ret |-> EmitReturn(key, config),
                     repeat |-> Repeats(config),
                     scheduled |-> Len(EmitTimer(tm, key, config)) - Len(tm)])
  /\ caller = "emit" => Len(EmitTimer(tm, key, config)) <= MaxTimers
  /\ timer' = EmitTimer(tm, key, config)
  /\ made' = Made(config, caller = "emit", tm, EmitTimer(tm, key, config))
  /\ made'.calls <= MaxRepeatCalls
  /\ UNCHANGED dataList

Emit(key, config) ==
  /\ Running
  /\ EmitCall("emit", "none", key, config, timer)

\* Emitter.emitDelayed(delay, key, 0, 0, config).
EmitDelayed(delay, key, config) ==
  /\ Running
  /\ \E ok \in {enabled /\ key \in dataList /\ delay > 0} :
       /\ timer' = IF ok
                   THEN Append(timer, TimerEvent("add", key, config, 1))
                   ELSE timer
       /\ op' = [name |-> "emitDelayed",
                 arg |-> [key |-> key, delay |-> delay,
                          ret |-> IF ok THEN "event" ELSE "null"]]
  /\ Len(timer') <= MaxTimers
  /\ made' = Made(config, TRUE, timer, timer)
  /\ made'.calls <= MaxRepeatCalls
  /\ spawns' = <<>> /\ steps' = <<>> /\ kills' = <<>>
  /\ UNCHANGED <<parts, list, pool, pCount, delayCfg, enabled, force,
                 scrollSpeed, signals, batch, renderer, error, hist,
                 setLives, scen, dataList, labs>>

\* The events left once event i has fired: a loop stays, a repeat stays
\* while it has firings left, anything else is gone.
Fired(tm, i) ==
  IF tm[i].kind = "loop"
  THEN tm
  ELSE IF tm[i].kind = "repeat" /\ tm[i].left > 1
  THEN [tm EXCEPT ![i].left = @ - 1]
  ELSE RemoveAt(tm, i)

\* Event i of the timer is due: the timer calls emit with the arguments the
\* event was made with.  (When an event is due is left open.)
Tick(i) ==
  /\ Running
  /\ i \in 1..Len(timer)
  /\ EmitCall("timer", timer[i].kind, timer[i].key, timer[i].config,
              Fired(timer, i))

\* ParticleStorm.clearData(key).
ClearData(key) ==
  /\ Running
  /\ key \in dataList
  /\ dataList' = dataList \ {key}
  /\ op' = [name |-> "clearData", arg |-> key]
  /\ spawns' = <<>> /\ steps' = <<>> /\ kills' = <<>>
  /\ UNCHANGED <<parts, list, pool, pCount, delayCfg, enabled, force,
                 scrollSpeed, signals, batch, renderer, error, hist,
                 setLives, scen, timer, made, labs>>

\* Emitter.update() in a frame of `elapsed` ms (with an empty list the call
\* changes nothing, and is left out).  How many children are
\* spawned, and so how often onInherit is asked, does not depend on its
\* answers: a child spawned in this update is not stepped before the next.
UpdateWithin(elapsed, most) ==
  /\ Running
  /\ list # <<>>
  /\ \A i \in 1..Len(list) : parts[list[i]].age + elapsed <= MaxAge
  /\ \E vs \in InheritResults(
                  UpdateLoop(World, LoopStart(World), elapsed, <<>>).inh) :
       \E w \in {UpdateLoop(World, LoopStart(World), elapsed, vs)} :
          /\ Len(w.parts) <= most
          /\ Commit(w, "update", elapsed)

Update(elapsed) == UpdateWithin(elapsed, MaxParticles)

\* Particle.kill() called by the game on an active, live particle.
Kill(id) ==
  /\ Running
  /\ \E i \in 1..Len(list) : list[i] = id
  /\ parts[id].alive
  /\ Commit(KillParticle(World, id, "game"), "kill", id)

\* Particle.setLife(lifespan, keepAlive) called by the game on an active
\* particle: a new lifespan, and life, age and completion start over.
SetLifeParticle(p, lifespan, keepAlive) ==
  [p EXCEPT !.lifespan = lifespan, !.life = 0, !.age = 0,
            !.lastPercent = 0, !.isComplete = FALSE, !.keepAlive = keepAlive]

SetLife(id, lifespan, keepAlive) ==
  /\ Running
  /\ setLives < MaxSetLife
  /\ \E i \in 1..Len(list) : list[i] = id
  /\ Commit([World EXCEPT
               !.parts[id] = SetLifeParticle(@, lifespan, keepAlive),
               !.hist[id] = [NewHist EXCEPT !.delay0 = parts[id].delay,
                                            !.key = hist[id].key]],
            "setLife", [id |-> id, life |-> parts[id].life])

\* `this.list[i].kill()` of Emitter.destroy.
DestroyKillNone(w, id) == w
DestroyKill(w, id) == KillParticle(w, id, "destroy")

\* The loop of Emitter.destroy, from index i of the active list down to the
\* first: the particle is killed and spliced out of the list.
RECURSIVE DestroyLoop(_, _)
DestroyLoop(w, i) ==
  IF i < 1
  THEN w
  ELSE DestroyLoop([DestroyKill(w, w.list[i]) EXCEPT !.list = RemoveAt(@, i)],
                   i - 1)

\* Emitter.destroy as a function of the world.  `this.renderer.clear` is
\* read first, which throws a TypeError when the renderer is null; otherwise
\* the renderer is destroyed and let go, the active particles are killed,
\* and list, pool and batch are replaced by empty arrays.
DestroyWorld(w) ==
  IF w.renderer = Null
  THEN [w EXCEPT !.error = "TypeError"]
  ELSE [DestroyLoop([w EXCEPT !.renderer = Null], Len(w.list)) EXCEPT
          !.list = <<>>, !.pool = <<>>, !.batch = <<>>]

\* Emitter.destroy() called by the game (op.arg: how many particles were
\* active and how many pooled when it was called).
Destroy ==
  /\ Running
  /\ Commit(DestroyWorld(World), "destroy",
            [active |-> Len(list), pooled |-> Len(pool)])

\* The setter of Emitter.paused: `this.enabled = !value`.
SetPaused(value) ==
  /\ Running
  /\ enabled' = ~value
  /\ op' = [name |-> "paused", arg |-> value]
  /\ spawns' = <<>> /\ steps' = <<>> /\ kills' = <<>>
  /\ UNCHANGED <<parts, list, pool, pCount, delayCfg, force, scrollSpeed,
                 signals, batch, renderer, error, hist, setLives, scen, labs, clock>>

\* ParticleStorm.update for a plugin with this one emitter, in a frame of
\* `elapsed` ms: `if (this.emitters[i].enabled && !manualUpdate)
\* this.emitters[i].update()`.
PluginUpdate(elapsed) ==
  IF enabled
  THEN Update(elapsed)
  ELSE /\ Running
       /\ op' = [name |-> "frame", arg |-> elapsed]
       /\ spawns' = <<>> /\ steps' = <<>> /\ kills' = <<>>
       /\ UNCHANGED <<parts, list, pool, pCount, delayCfg, enabled, force,
                      scrollSpeed, signals, batch, renderer, error, hist,
                      setLives, scen, labs, clock>>

\* The keys the pool scenario emits: a short-lived particle, a delayed
\* parent whose children inherit, and a key that is not registered.
PoolKeys == {"spark", "late", "ghost"}

\* The pool scenario: the game seeds, emits batches and updates at a steady
\* frame rate.
Next ==
  \/ InstallSignals
  \/ \E qty \in 1..MaxSeed : Seed(qty)
  \/ \E key \in PoolKeys, config \in Configs : Emit(key, config)
  \/ Update(500)

Spec == Init /\ [][Next]_vars

\* The life scenario: the game emits one particle of any kind when nothing
\* is active, steps it with frames of varying length, and may restart its
\* life with setLife.
\* The kinds of particle the life and kill scenarios emit.
LifeKeys == {"basic", "forever", "keep", "late", "spark"}

EmitAlone(key) ==
  /\ list = <<>>
  /\ Emit(key, [kind |-> "none", total |-> 1, delay |-> 0])

NextLife ==
  \/ InstallSignals
  \/ \E key \in LifeKeys : EmitAlone(key)
  \/ \E elapsed \in ElapsedValues : Update(elapsed)
  \/ \E id \in 1..Len(parts), lifespan \in SetLifeValues :
       SetLife(id, lifespan, FALSE)

SpecLife == Init /\ [][NextLife]_vars

\* The kill scenario: the game emits one particle of any kind when nothing
\* is active, updates, and may call kill on an active particle.
NextKill ==
  \/ InstallSignals
  \/ \E key \in LifeKeys : EmitAlone(key)
  \/ \E elapsed \in ElapsedValues : Update(elapsed)
  \/ \E id \in 1..Len(parts) : Kill(id)

SpecKill == Init /\ [][NextKill]_vars

\* The teardown scenario: the pool scenario, ended by the game destroying
\* the emitter, once or again.  What the game's own seed, emit and update
\* calls do on a destroyed emitter is left out.
NextDestroy ==
  \/ InstallSignals
  \/ renderer # Null /\ \E qty \in 1..MaxSeed : Seed(qty)
  \/ renderer # Null /\ \E key \in PoolKeys, config \in Configs : Emit(key, config)
  \/ renderer # Null /\ Update(500)
  \/ Destroy

SpecDestroy == Init /\ [][NextDestroy]_vars

\* The kinds of particle the emission scenario emits: parents that emit
\* children at a fixed rate.
EmittingKeys == {"fountain", "late"}

\* The emission scenario: the game emits one such parent when nothing is
\* active, and updates with frames of varying length.
NextEmission ==
  \/ InstallSignals
  \/ \E key \in EmittingKeys : EmitAlone(key)
  \/ \E elapsed \in ElapsedValues : Update(elapsed)

SpecEmission == Init /\ [][NextEmission]_vars

\* The game sets emitter.force and emitter.scrollSpeed to zero, the
\* values the constructor gives them, before it emits anything.
Zero == [x |-> 0, y |-> 0]
Still ==
  /\ Running
  /\ parts = <<>>
  /\ force # Zero
  /\ force' = Zero
  /\ scrollSpeed' = Zero
  /\ op' = [name |-> "still", arg |-> 0]
  /\ spawns' = <<>> /\ steps' = <<>> /\ kills' = <<>>
  /\ UNCHANGED <<parts, list, pool, pCount, delayCfg, enabled, signals,
                 batch, renderer, error, hist, setLives, scen, labs, clock>>

\* The kinds of particle that head for a target.
TargetKeys == {"homing", "settler", "stay"}

\* The target scenario: the game emits one such particle at (0, 0) when
\* nothing is active, with or without a force on the emitter, and updates
\* with frames of varying length.
NextTarget ==
  \/ Still
  \/ \E key \in TargetKeys : EmitAlone(key)
  \/ \E elapsed \in ElapsedValues : Update(elapsed)

SpecTarget == Init /\ [][NextTarget]_vars

\* The keys, configs and delays of the timer scenario: a registered key and
\* one that never was; no config, a config without repeat, one that repeats
\* twice and one that repeats for ever.
TimerKeys == {"spark", "ghost"}
TimerConfigs ==
  {[kind |-> "none", total |-> 1, delay |-> 0, repeat |-> 0]}
  \cup {[kind |-> "config", total |-> 1, delay |-> 0, repeat |-> r] :
          r \in {0 - 1, 0, 2}}
DelayValues == {0 - 250, 0, 250}

\* The timer scenario: the game emits at once or with a delay, with and
\* without repeats, removes data, and updates; the timer fires its events.
NextTimer ==
  \/ \E key \in TimerKeys, config \in TimerConfigs : Emit(key, config)
  \/ \E delay \in DelayValues, key \in TimerKeys, config \in TimerConfigs :
        EmitDelayed(delay, key, config)
  \/ \E i \in 1..MaxTimers : Tick(i)
  \/ \E key \in TimerKeys : ClearData(key)
  \/ Update(500)

SpecTimer == Init /\ [][NextTimer]_vars

\* The late-timer scenario: the game emits at once or with a delay, with
\* and without repeats, updates, and destroys the emitter once; the timer,
\* which destroy leaves alone, fires its events before and after.
NextLate ==
  \/ renderer # Null /\ \E key \in TimerKeys, config \in TimerConfigs :
        Emit(key, config)
  \/ renderer # Null /\ \E key \in TimerKeys, config \in TimerConfigs :
        EmitDelayed(250, key, config)
  \/ \E i \in 1..MaxTimers : Tick(i)
  \/ renderer # Null /\ Update(500)
  \/ renderer # Null /\ Destroy

SpecLate == Init /\ [][NextLate]_vars

\* The kinds of particle the pause scenario emits.
PauseKeys == {"basic", "late"}

\* The pause scenario: the game pauses and resumes the emitter, emits one
\* particle when nothing is active, and the particles are updated by the
\* plugin's frame or by the game calling Emitter.update itself.
NextPause ==
  \/ \E value \in BOOLEAN : SetPaused(value)
  \/ \E key \in PauseKeys : EmitAlone(key)
  \/ \E elapsed \in ElapsedValues : PluginUpdate(elapsed)
  \/ \E elapsed \in ElapsedValues : Update(elapsed)

SpecPause == Init /\ [][NextPause]_vars

\* The curve scenario: a Parameter's control curve is picked (or none) and
\* evaluated, sampled and integrated at one point after another.
InitGraph ==
  /\ InitEmitter
  /\ well = NoWell
  /\ kin = NoKin
  /\ body = NoBody
  /\ graph \in {[NoGraph EXCEPT !.control = c] :
                   c \in Curves \cup ShortCurves \cup {<<>>}}

\* A Graph function has been called with these arguments and has given r.
Graphed(fn, param, previous, percent, r) ==
  /\ graph' = [control |-> graph.control, fn |-> fn, param |-> param,
               previous |-> previous, percent |-> percent,
               value |-> r.value, threw |-> r.threw, done |-> TRUE]
  /\ UNCHANGED <<emitter, well, kin, body>>

\* Graph.getControlValue(control, percent).
Evaluate(percent) ==
  /\ graph.control # <<>>
  /\ Graphed("getControlValue", 0, 0, percent,
             GetControlValue(graph.control, percent))

\* Graph.getValue({value, control}, percent).
Sample(value, percent) ==
  Graphed("getValue", value, 0, percent,
          GetValue([value |-> value, control |-> graph.control], percent))

\* Graph.getControlArea(control, previousPercent, nowPercent).
Integrate(previousPercent, nowPercent) ==
  /\ graph.control # <<>>
  /\ previousPercent < nowPercent
  /\ Graphed("getControlArea", 0, previousPercent, nowPercent,
             GetControlArea(graph.control, previousPercent, nowPercent))

NextGraph ==
  \/ \E percent \in Percents : Evaluate(percent)
  \/ \E value \in ParamValues, percent \in Percents : Sample(value, percent)
  \/ \E previousPercent \in Percents, nowPercent \in Percents :
        Integrate(previousPercent, nowPercent)

SpecGraph == InitGraph /\ [][NextGraph]_vars

\* Where the wells and the particles of the gravity scenario are.
WellPlaces == {<<0, 0>>, <<30, 40>>}
WellPowers == {0 - 10, 0, 10}
WellEpsilons == {0, 100}
ParticlePlaces ==
  {<<0, 0>>, <<100, 0>>, <<0 - 100, 0>>, <<0, 100>>, <<30, 40>>,
   <<60, 80>>, <<0 - 30, 0 - 40>>, <<30, 0 - 40>>, <<30, 0>>}
FrameValues == {0, 16, 33}

\* The gravity scenario starts with one well, made by
\* emitter.createGravityWell(x, y, power, epsilon) with the default gravity
\* constant of 50, and one particle at rest.
InitGravity ==
  /\ InitEmitter
  /\ graph = NoGraph
  /\ kin = NoKin
  /\ body = NoBody
  /\ well \in {[NoWell EXCEPT
                   !.well = GravityWell(wp[1], wp[2], power, epsilon, 50),
                   !.now = AtRest(pp[1], pp[2]),
                   !.before = AtRest(pp[1], pp[2])] :
                wp \in WellPlaces, power \in WellPowers,
                epsilon \in WellEpsilons, pp \in ParticlePlaces}

\* well.step(particle) in a frame of `elapsed` ms.
WellStep(elapsed) ==
  /\ well.steps < MaxWellSteps
  /\ well' = [well EXCEPT
                !.now = GravityWellStep(well.well, well.now, elapsed),
                !.before = well.now,
                !.elapsed = elapsed,
                !.steps = well.steps + 1]
  /\ UNCHANGED <<emitter, graph, kin, body>>

NextGravity == \E elapsed \in FrameValues : WellStep(elapsed)

SpecGravity == InitGravity /\ [][NextGravity]_vars

\* The templates of the inheritance scenario, and what emit.inherit can
\* ask for: everything (`true`), one property, or nothing.
MaxPushes == 2
ParentData ==
  {[vx |-> Number(5), vy |-> Number(0)],
   [vx |-> Shaped(2, 1, 1, ControlLinear), vy |-> Number(3)],
   [vx |-> Unset, vy |-> Unset]}
ChildData ==
  {[vx |-> Number(1), vy |-> Number(1)],
   [vx |-> Number(5), vy |-> Number(0)],
   [vx |-> Shaped(3, 0, 0, ControlYoyo), vy |-> Unset],
   [vx |-> Unset, vy |-> Unset]}
InheritValues == {"all", "velocity", "vx", "vy", "rotation", "none"}
\* The emitter.force of the frames the parent lives through.
PushValues == {[x |-> 0, y |-> 1], [x |-> 1, y |-> 0]}

\* The inheritance scenario starts with a parent spawned from its template.
InitKin ==
  /\ InitEmitter
  /\ graph = NoGraph
  /\ well = NoWell
  /\ body = NoBody
  /\ kin \in {[NoKin EXCEPT !.parent = TemplateVelocity(pd),
                            !.inherit = i, !.data = cd] :
                pd \in ParentData, cd \in ChildData, i \in InheritValues}

\* A step of the parent under the emitter's force: `velocity.x.value +=
\* force.x`, and the same for y.
Push(f) ==
  /\ kin.pushes < MaxPushes
  /\ kin' = [kin EXCEPT !.parent.x.value = @ + f.x,
                        !.parent.y.value = @ + f.y,
                        !.spawned = FALSE,
                        !.pushes = @ + 1]
  /\ UNCHANGED <<emitter, graph, well, body>>

\* The parent emits a child: a pooled or new particle is reset and created
\* from the child's template with the parent set.
SpawnChild ==
  /\ ~kin.spawned
  /\ kin' = [kin EXCEPT
               !.child = TransformInit(kin.data, kin.inherit, kin.parent),
               !.spawned = TRUE]
  /\ UNCHANGED <<emitter, graph, well, body>>

NextKin ==
  \/ \E f \in PushValues : Push(f)
  \/ SpawnChild

SpecKin == InitKin /\ [][NextKin]_vars

\* The templates of the motion scenario: a particle that accelerates,
\* turns, grows along a curve and emits; one that lives for ever; one that
\* waits, and whose velocity has an initial part and a delta.
MaxLives == 2
MaxBodySteps == 2
BodyData ==
  [mover    |-> [lifespan |-> 500, keepAlive |-> FALSE, delay |-> 0,
                 ignoreForce |-> FALSE, hasEmit |-> TRUE,
                 emit |-> [name |-> NameKey("spark"), value |-> 2,
                           inherit |-> FALSE],
                 vx |-> Number(2), vy |-> Unset,
                 ax |-> Unset, ay |-> Shaped(1, 0, 1, <<>>),
                 scaleX |-> Shaped(2, 1, 0, ControlLinear),
                 scaleY |-> Unset,
                 rotation |-> Shaped(0, 0, 15, <<>>)],
   immortal |-> [lifespan |-> 0, keepAlive |-> FALSE, delay |-> 0,
                 ignoreForce |-> TRUE, hasEmit |-> FALSE, emit |-> BaseEmit,
                 vx |-> Number(3), vy |-> Number(1),
                 ax |-> Unset, ay |-> Unset,
                 scaleX |-> Unset, scaleY |-> Unset,
                 rotation |-> Shaped(0, 0, 15, <<>>)],
   sleeper  |-> [lifespan |-> 500, keepAlive |-> TRUE, delay |-> 250,
                 ignoreForce |-> FALSE, hasEmit |-> FALSE, emit |-> BaseEmit,
                 vx |-> Shaped(1, 1, 1, <<>>), vy |-> Unset,
                 ax |-> Number(1), ay |-> Unset,
                 scaleX |-> Number(2), scaleY |-> Shaped(1, 0, 1, <<>>),
                 rotation |-> Number(90)]]
BodyPlaces == {<<0, 0>>, <<10, 20>>}
BodyForces == {Zero, [x |-> 0, y |-> 1]}

\* The motion scenario starts with a particle just constructed.
InitBody == Init

\* emitParticle(key, x, y): the particle, new or popped from the pool, is
\* reset and created from the template.
SpawnBody(key, x, y) ==
  /\ body.lives < MaxLives
  /\ \E a \in {ParticleMade(ParticleReset(body.now), x, y, BodyData[key])} :
       body' = [now |-> CreateStep(a), before |-> a, worn |-> body.now,
                data |-> key, spawned |-> TRUE, stepped |-> a.alive,
                x |-> x, y |-> y,
                lives |-> body.lives + 1, steps |-> 0]
  /\ UNCHANGED <<emitter, graph, well, kin>>

\* particle.step(elapsed, force) while the particle is still delayed.
StepDelayed(elapsed) ==
  [body EXCEPT !.now.age = @ + elapsed, !.spawned = FALSE,
               !.stepped = FALSE, !.steps = @ + 1]

\* particle.step(elapsed, force) from the particle `a` that is about to
\* call transform.step.
StepMoving(a, elapsed) ==
  [body EXCEPT !.now = BodyStepFrom(a, elapsed), !.before = a,
               !.spawned = FALSE, !.stepped = TRUE, !.steps = @ + 1]

\* particle.step(elapsed, force), as Emitter.update calls it on a particle
\* of its active list.
StepBody(elapsed, f) ==
  /\ body.now.alive
  /\ body.steps < MaxBodySteps
  /\ body' = IF StillDelayed(body.now, body.now.age + elapsed)
             THEN StepDelayed(elapsed)
             ELSE StepMoving(
                    Aged(body.now,
                         AgeAfterDelay(body.now, body.now.age + elapsed), f),
                    elapsed)
  /\ UNCHANGED <<emitter, graph, well, kin>>

NextBody ==
  \/ \E key \in DOMAIN BodyData, place \in BodyPlaces :
        SpawnBody(key, place[1], place[2])
  \/ \E elapsed \in ElapsedValues, f \in BodyForces : StepBody(elapsed, f)

SpecBody == InitBody /\ [][NextBody]_vars

\* The kinds of particle the crowd scenario emits: short-lived, long-lived
\* and one that emits a child every 250 ms.
MaxListed == 3
CrowdKeys == {"spark", "basic", "fountain"}

\* Emitter.emit(key, 0, 0) while the emitter has made fewer than MaxListed
\* particles.
EmitListed(key) ==
  /\ Running
  /\ Len(parts) < MaxListed
  /\ Commit(EmitWorld(World, key, 0, 0,
                      [kind |-> "none", total |-> 1, delay |-> 0,
                       repeat |-> 0]),
            "emit", key)

\* The crowd scenario: the game emits particles of several kinds one by
\* one and updates with frames of varying length.
NextCrowd ==
  \/ \E key \in CrowdKeys : EmitListed(key)
  \/ \E elapsed \in ElapsedValues : UpdateWithin(elapsed, MaxListed)

SpecCrowd == Init /\ [][NextCrowd]_vars

\* The configs of the batch-delay scenario: no config, and one particle
\* with `delay: 0` or `delay: 250`.
BatchDelayConfigs ==
  {[kind |-> "none", total |-> 1, delay |-> 0, repeat |-> 0]}
  \cup {[kind |-> "config", total |-> 1, delay |-> d, repeat |-> 0] :
          d \in {0, 250}}

\* The batch-delay scenario: the game emits particles with and without a
\* template delay, with and without a config that delays the batch, and
\* updates at a steady frame rate.
NextBatchDelay ==
  \/ \E key \in PauseKeys, config \in BatchDelayConfigs : Emit(key, config)
  \/ Update(500)

SpecBatchDelay == Init /\ [][NextBatchDelay]_vars

\* The kinds of particle whose emission descriptor has an `at` list: one
\* that is kept alive, one that starts with a delay, one that lives for
\* ever.
BurstKeys == {"flash", "burst", "pulse"}

\* The burst scenario: the game emits one such particle when nothing is
\* active, updates with frames of varying length, and may call kill on an
\* active particle.
NextBurst ==
  \/ InstallSignals
  \/ \E id \in 1..Len(parts) : Kill(id)
  \/ \E key \in BurstKeys : EmitAlone(key)
  \/ \E elapsed \in ElapsedValues : UpdateWithin(elapsed, MaxListed)

SpecBurst == Init /\ [][NextBurst]_vars

\* The kinds of particle whose emission descriptor is badly authored: the
\* child key is not registered, the name is missing, the name is an object
\* with an empty `at` list.
BrokenKeys == {"orphan", "nameless", "listless"}

\* The authoring scenario: the game emits one such particle when nothing is
\* active, and updates with frames of varying length.
NextChild ==
  \/ InstallSignals
  \/ \E key \in BrokenKeys : EmitAlone(key)
  \/ \E elapsed \in ElapsedValues : Update(elapsed)

SpecChild == Init /\ [][NextChild]_vars

\* ------------------------------------------------------------- properties
InList(id) == id \in SeqSet(list)
InPool(id) == id \in SeqSet(pool)
\* Whether the log (spawns or steps) of the operation that produced the
\* state has a record of particle id.
Recorded(id, log) == \E k \in 1..Len(log) : log[k].id = id

\* C1: after any sequence of seed, emit and update calls (child emission
\* included) every Particle the emitter has constructed is in exactly one
\* of the pool and the active list, and appears there exactly once.
C1_PoolListPartition ==
  /\ NoDup(list \o pool)
  /\ SeqSet(list \o pool) = 1..Len(parts)

\* An update in which a parent spawned a child out of the pool while
\* another particle stayed pooled.
C1_Witness ==
  /\ op.name = "update"
  /\ \E k \in 1..Len(spawns) : spawns[k].parent # Null /\ spawns[k].inList
  /\ list # <<>>
  /\ pool # <<>>

\* C2: seed P particles, spawn N (none vetoed), update until all have died:
\* the active list is empty and the pool holds exactly max(P, N) distinct
\* particles, which are all the particles ever constructed.
C2_PoolGrowsToMax ==
  (scen.clean /\ scen.died /\ list = <<>>) =>
     /\ Len(pool) = Max(scen.seeded, scen.spawned)
     /\ NoDup(pool)
     /\ Len(parts) = Len(pool)

\* Such a run with fewer seeded than spawned: the pool ran empty and a
\* particle was allocated.
C2_Witness ==
  /\ scen.clean /\ scen.died /\ list = <<>>
  /\ scen.seeded = 1
  /\ scen.spawned = 2
  /\ Len(pool) = 2

\* C3: when Particle.kill has returned, the particle it was called on is
\* in the pool and no longer in the active list.
C3_KillReturnsToPool ==
  op.name = "kill" => (InPool(op.arg) /\ ~InList(op.arg))

C5_ZeroLifespanImmortal ==
  \A id \in 1..Len(parts) :
     parts[id].lifespan = 0 =>
        /\ parts[id].life = 0
        /\ ~parts[id].isComplete
        /\ hist[id].completions = 0
        /\ InList(id)
        /\ \A k \in 1..Len(steps) : steps[k].id = id => steps[k].ret

\* A lifespan 0 particle stepped three times with frames of both lengths,
\* on an emitter that has an onComplete signal.
C5_Witness ==
  \E id \in 1..Len(parts) :
     /\ parts[id].lifespan = 0
     /\ hist[id].steps >= 3
     /\ hist[id].dts = {250, 500}
     /\ signals.onComplete
     /\ InList(id)

\* C6: a keepAlive particle whose life has reached 1 is in the active list,
\* every update steps it, and onComplete (when the emitter has the signal)
\* has been dispatched for it exactly once however many updates followed.
C6_KeepAliveStaysCompletesOnce ==
  \A id \in 1..Len(parts) :
     (parts[id].keepAlive /\ parts[id].life = One) =>
        /\ InList(id)
        /\ op.name = "update" => Recorded(id, steps)
        /\ parts[id].isComplete
        /\ hist[id].completions = (IF signals.onComplete THEN 1 ELSE 0)

\* A keepAlive particle of lifespan 500 updated twice more after its life
\* reached 1: still active, still one dispatch.
C6_Witness ==
  \E id \in 1..Len(parts) :
     /\ parts[id].keepAlive
     /\ parts[id].lifespan = 500
     /\ parts[id].age >= 1000
     /\ hist[id].steps >= 3
     /\ hist[id].completions = 1
     /\ InList(id)
     /\ op.name = "update"

\* C7 as stated: life stays within [0, 1] and, from one operation to the
\* next, decreases for no particle except one the operation has spawned
\* (whose life the reset leaves 0).
C7_LifeResetOnlyAtSpawn ==
  [][ /\ \A id \in 1..Len(parts') :
           /\ parts'[id].life \in 0..One
           /\ Recorded(id, spawns') => parts'[id].life = 0
      /\ \A id \in 1..Len(parts) :
           \/ Recorded(id, spawns')
           \/ parts'[id].life >= parts[id].life ]_vars

\* C7, amended: life stays within [0, 1] and, from one operation to the
\* next, decreases for no particle except one the operation has spawned
\* (whose life the reset leaves 0) or one Particle.setLife was called on
\* (whose life it sets to 0).
C7_LifeResetAtSpawnOrSetLife ==
  [][ /\ \A id \in 1..Len(parts') :
           /\ parts'[id].life \in 0..One
           /\ Recorded(id, spawns') => parts'[id].life = 0
      /\ \A id \in 1..Len(parts) :
           \/ Recorded(id, spawns')
           \/ (op'.name = "setLife" /\ op'.arg.id = id /\ parts'[id].life = 0)
           \/ parts'[id].life >= parts[id].life ]_vars

\* setLife has just been called on a particle whose life was above 0.
C7_Witness ==
  /\ op.name = "setLife"
  /\ op.arg.life > 0
  /\ parts[op.arg.id].life = 0
  /\ InList(op.arg.id)

\* C8: a step of a particle that is still delayed (age plus elapsedTime
\* below delay) changes no property but the age, spawns no child and
\* returns true.
C8_DelayedStepOnlyAges ==
  \A k \in 1..Len(steps) :
     steps[k].delayed =>
        /\ steps[k].changed \subseteq {"age"}
        /\ steps[k].children = 0
        /\ steps[k].ret

\* A still delayed particle has been stepped and has aged.
C8_Witness ==
  \E k \in 1..Len(steps) :
     /\ steps[k].delayed
     /\ steps[k].changed = {"age"}
     /\ steps[k].age > 0

\* C9 as stated: the step in which the delay runs out leaves age 0, delay 0
\* and life 0, adds no force to the velocity and spawns no child.
C9_ExpiryStepExits ==
  \A k \in 1..Len(steps) :
     steps[k].expired =>
        /\ steps[k].age = 0
        /\ steps[k].delay = 0
        /\ steps[k].life = 0
        /\ steps[k].changed \cap {"vx", "vy"} = {}
        /\ steps[k].children = 0

\* C9, amended: the step in which the delay runs out leaves age 0, delay 0
\* and life 0 and then goes on as a step at age 0 does: it returns true,
\* the position does not move, and the emitter force is added to the
\* velocity unless the particle ignores force.
C9_ExpiryStepRunsAtAgeZero ==
  \A k \in 1..Len(steps) :
     steps[k].expired =>
        /\ steps[k].age = 0
        /\ steps[k].delay = 0
        /\ steps[k].life = 0
        /\ steps[k].ret
        /\ steps[k].changed \cap {"x", "y", "life", "isComplete"} = {}
        /\ (~steps[k].ignoreForce /\ force.y # 0) => "vy" \in steps[k].changed

\* A delay ran out in a step that added the force and spawned a child.
C9_Witness ==
  \E k \in 1..Len(steps) :
     /\ steps[k].expired
     /\ steps[k].age = 0
     /\ "vy" \in steps[k].changed
     /\ steps[k].children > 0

\* C10: a spawn onInherit answered false to is not passed to renderer.add
\* or renderer.update, is not put on the active list, and is in the pool
\* when emitParticle returns.
C10_VetoedSpawnStaysPooled ==
  \A k \in 1..Len(spawns) :
     spawns[k].vetoed =>
        /\ ~spawns[k].added
        /\ ~spawns[k].updated
        /\ ~spawns[k].inList
        /\ spawns[k].inPool

\* onInherit answered false for a child spawned during an update.
C10_Witness ==
  /\ op.name = "update"
  /\ \E k \in 1..Len(spawns) :
        spawns[k].vetoed /\ spawns[k].parent # Null /\ spawns[k].inPool

\* Whether the particle's descriptor names, by a string, a key that is not
\* in the data list.
UnknownChild(p) ==
  p.emit.name.type = "string" /\ p.emit.name.key \notin DataKeys \cup {""}

\* Whether the update that produced the state found particle id in the
\* active list: it is still there, or the update has removed it.
Updated(id) ==
  InList(id) \/ \E k \in 1..Len(kills) : kills[k].id = id /\ kills[k].by = "update"

\* C11: when a particle's descriptor names a child key that is not in the
\* data list, the update raises no error and the particle's step completes
\* with less than one unit left in the accumulator; every spawn asked for
\* under such a key is left out of the active list and in the pool.
C11_UnknownChildKeySkipped ==
  /\ \A k \in 1..Len(spawns) :
        spawns[k].key \notin DataKeys =>
           /\ ~spawns[k].inList
           /\ spawns[k].inPool
           /\ ~spawns[k].added
  /\ op.name = "update" =>
        \A id \in 1..Len(parts) :
           (UnknownChild(parts[id]) /\ Updated(id)) =>
              /\ error = ""
              /\ \E k \in 1..Len(steps) :
                    /\ steps[k].id = id
                    /\ steps[k].numToEmit < One

\* A particle naming the unregistered key "ghost" has been stepped, has
\* asked for a child, and its accumulator is back below one unit.
C11_Witness ==
  /\ op.name = "update"
  /\ error = ""
  /\ \E k \in 1..Len(steps) :
        /\ UnknownChild(parts[steps[k].id])
        /\ steps[k].children >= 1
        /\ steps[k].numToEmit < One
  /\ \E k \in 1..Len(spawns) :
        spawns[k].key = "ghost" /\ spawns[k].parent # Null /\ spawns[k].inPool

\* Whether the particle's descriptor has a positive rate but nothing a child
\* key can be worked out from: no name, or a name object with an empty
\* `at` list.
Unresolvable(p) ==
  /\ p.emit.value > 0
  /\ \/ p.emit.name.type = "null"
     \/ p.emit.name.type = "object" /\ p.emit.name.at = <<>>

\* C12: a descriptor with a positive rate but no resolvable child name is
\* never fatal: the update that steps such a particle raises no error, the
\* step completes, and it asks the emitter for no child.
C12_UnresolvableNameSkipped ==
  op.name = "update" =>
     \A id \in 1..Len(parts) :
        (Unresolvable(parts[id]) /\ Updated(id)) =>
           /\ error = ""
           /\ \E k \in 1..Len(steps) :
                 steps[k].id = id /\ steps[k].children = 0

\* C13: Emitter.destroy is idempotent: called on an emitter that has been
\* destroyed already it raises no error and changes nothing, and the active
\* list is empty.
C13_DestroyIdempotent ==
  [][ (op'.name = "destroy" /\ renderer = Null) =>
         /\ error' = ""
         /\ list' = <<>>
         /\ UNCHANGED <<parts, list, pool, batch, renderer>> ]_vars

C15_PausedCallsChangeNothing ==
  [][ (~enabled /\ op'.name \in {"emit", "update"}) =>
         UNCHANGED <<parts, list, pool>> ]_vars

\* C16: on an emitter that has an onKill signal, the signal is dispatched
\* for every particle that is killed, whether emitParticle kills it (the
\* spawn was vetoed or had no data) or Emitter.update does (the particle's
\* step returned false).
C16_OnKillAtEveryKill ==
  signals.onKill =>
     \A k \in 1..Len(kills) :
        kills[k].by \in {"spawn", "update"} => kills[k].dispatched

RECURSIVE SpawnedFrom(_)
SpawnedFrom(k) ==
  IF k > Len(spawns)
  THEN <<>>
  ELSE (IF spawns[k].inList THEN <<spawns[k].id>> ELSE <<>>) \o SpawnedFrom(k + 1)

\* C18: Emitter.batch holds exactly the particles emitted by the most
\* recent call of Emitter.emit: when an emit call returns, batch is the
\* particles that call has emitted, and an update adds none of the children
\* it spawns to it.
C18_BatchIsLastEmit ==
  /\ op.name = "emit" => batch = SpawnedFrom(1)
  /\ op.name = "update" =>
        \A k \in 1..Len(spawns) :
           (spawns[k].parent # Null /\ spawns[k].inList) =>
              spawns[k].id \notin SeqSet(batch)

\* C19: a spawn that is not vetoed and has data is passed to renderer.add;
\* an update steps each particle of the active list once and each step
\* passes the particle to renderer.update exactly once; the particle has
\* not been killed when it is stepped, so that renderer.update never
\* follows renderer.kill before the next spawn; and a particle the update
\* removes is killed there once, not having been killed before.
C19_RendererHooks ==
  /\ \A k \in 1..Len(spawns) :
        (~spawns[k].vetoed /\ spawns[k].inList) => spawns[k].added
  /\ \A k \in 1..Len(steps) :
        /\ steps[k].updates = 1
        /\ steps[k].alive
  /\ NoDup([k \in 1..Len(steps) |-> steps[k].id])
  /\ \A j, k \in 1..Len(kills) :
        (j # k /\ kills[j].by # "spawn" /\ kills[k].by # "spawn") =>
           kills[j].id # kills[k].id
  /\ \A k \in 1..Len(kills) :
        kills[k].by = "update" =>
           \E j \in 1..Len(steps) : steps[j].id = kills[k].id /\ steps[j].alive
  /\ op.name = "update" =>
        \A id \in 1..Len(parts) :
           (InList(id) /\ ~Recorded(id, spawns)) => Recorded(id, steps)

\* Whether the points of a curve are sorted by x, from x = 0 to x = 1.
Anchored(control) ==
  /\ Len(control) >= 1
  /\ control[1].x = 0
  /\ control[Len(control)].x = One
  /\ \A i \in 1..(Len(control) - 1) : control[i].x <= control[i + 1].x

\* C20: for a curve whose points are sorted by x from x = 0 to x = 1,
\* getControlValue returns the first point's y at 0 and the last point's y
\* at 1.
C20_CurveEndpoints ==
  (graph.fn = "getControlValue" /\ Anchored(graph.control)) =>
     /\ ~graph.threw
     /\ graph.percent = 0 => graph.value = graph.control[1].y
     /\ graph.percent = One =>
           graph.value = graph.control[Len(graph.control)].y

\* C21: evaluating a curve (getControlValue, or getValue on a Parameter
\* with a curve) never fails and clamps flat: past the last point's x it
\* gives the last point's y, and for a single-point curve or before the
\* first point's x it gives the first point's y.
C21_CurveClampsFlat ==
  (graph.fn \in {"getControlValue", "getValue"} /\ graph.control # <<>>) =>
     /\ ~graph.threw
     /\ graph.percent > graph.control[Len(graph.control)].x =>
           graph.value = graph.control[Len(graph.control)].y
     /\ (Len(graph.control) = 1 \/ graph.percent < graph.control[1].x) =>
           graph.value = graph.control[1].y

\* The piecewise-linear curve through the points of control, at t: flat
\* before the first point and after the last, linear in between.
CurveAt(control, t) ==
  IF t <= control[1].x
  THEN control[1].y
  ELSE IF t >= control[Len(control)].x
       THEN control[Len(control)].y
       ELSE LET i == CHOOSE i \in 1..(Len(control) - 1) :
                        control[i].x <= t /\ t < control[i + 1].x
            IN control[i].y
               + ((t - control[i].x) * (control[i + 1].y - control[i].y))
                    \div (control[i + 1].x - control[i].x)

\* C22: for every life fraction in [0, 1], 0 and 1 included, getValue
\* gives the Parameter's value when it has no curve and the value times the
\* curve's value at that life fraction when it has one.
C22_ParameterSample ==
  (graph.fn = "getValue" /\ (graph.control = <<>> \/ Anchored(graph.control))) =>
     /\ ~graph.threw
     /\ graph.value = IF graph.control = <<>>
                      THEN graph.param * One
                      ELSE graph.param * CurveAt(graph.control, graph.percent)

\* The area under the piecewise-linear curve between t0 and t1, in
\* half-millionths: the trapezoids over the curve's value at t0, its
\* vertices strictly inside (t0, t1), and its value at t1.
ExactArea(control, t0, t1) ==
  LET Inside(pt) == pt.x > t0 /\ pt.x < t1
  IN Trapezoids(<<[x |-> t0, y |-> CurveAt(control, t0)]>>
                \o SelectSeq(control, Inside)
                \o <<[x |-> t1, y |-> CurveAt(control, t1)]>>, 2)

\* C23: for a curve from x = 0 to x = 1 and 0 <= t0 < t1 <= 1,
\* getControlArea gives the exact area under the piecewise-linear curve
\* between t0 and t1; over [0, 1] that is 0.5 for the ascending-linear,
\* the descending-linear and the yoyo curve.
C23_AreaIsExact ==
  (graph.fn = "getControlArea" /\ Anchored(graph.control)) =>
     /\ ~graph.threw
     /\ graph.value = ExactArea(graph.control, graph.previous, graph.percent)
     /\ (graph.control \in {ControlLinear, ControlReverse, ControlYoyo}
           /\ graph.previous = 0 /\ graph.percent = One) =>
              graph.value = One * One

\* C24: with a fixed emission rate (no curve, no `at` list) every step that
\* is not held back by the delay adds exactly rate x elapsedTime to the
\* accumulator, whatever the life interval: what the step leaves in the
\* accumulator, plus one unit per child it has emitted, is what it found
\* plus rate x elapsedTime, and less than one unit is left.
C24_FixedRateAccumulates ==
  \A k \in 1..Len(steps) :
     ~steps[k].delayed =>
        \E dt \in ElapsedValues :
           /\ op.arg = dt
           /\ steps[k].numToEmit + (One * steps[k].children)
                 = steps[k].numToEmit0 + (steps[k].rate * dt)
           /\ steps[k].numToEmit < One

\* A particle with rate 0.004 has been stepped by 250 ms with an empty
\* accumulator, at a life above 0: exactly one child, nothing left over.
C24_Witness ==
  \E k \in 1..Len(steps) :
     /\ steps[k].rate = 4
     /\ op.arg = 250
     /\ steps[k].life > 250
     /\ steps[k].numToEmit0 = 0
     /\ steps[k].children = 1
     /\ steps[k].numToEmit = 0

\* The offset from the particle of the gravity scenario to its well, and
\* the velocity its last step added.
WellDelta ==
  [x |-> well.now.vx - well.before.vx, y |-> well.now.vy - well.before.vy]
WellAhead == Towards(well.well, well.before)

\* C25: a step of a well with positive power, in a frame that took time,
\* adds to the velocity of a particle that is not at the well a delta
\* pointing from the particle to the well (a positive multiple of the
\* offset, up to the rounding of each component to a thousandth; x
\* negative for a well at (0,0) and a particle at (100,0)); the
\* velocity of a particle exactly at the well is unchanged; and the
\* position of the particle is never changed.
C25_WellPullsTowardsItself ==
  well.steps > 0 =>
     /\ well.now.x = well.before.x /\ well.now.y = well.before.y
     /\ (WellAhead.x = 0 /\ WellAhead.y = 0) =>
           (WellDelta.x = 0 /\ WellDelta.y = 0)
     /\ (well.well.power > 0 /\ well.elapsed > 0
           /\ ~(WellAhead.x = 0 /\ WellAhead.y = 0)) =>
           /\ Sign(WellDelta.x) = Sign(WellAhead.x)
           /\ Sign(WellDelta.y) = Sign(WellAhead.y)
           /\ Abs((WellDelta.x * WellAhead.y) - (WellDelta.y * WellAhead.x))
                 <= Abs(WellAhead.x) + Abs(WellAhead.y)
     /\ (well.well.x = 0 /\ well.well.y = 0 /\ well.well.power > 0
           /\ well.elapsed > 0
           /\ well.before.x = 100 /\ well.before.y = 0) =>
           (WellDelta.x < 0 /\ WellDelta.y = 0)

\* A well at (0,0) with power 10 and minimum distance 0 has pulled a
\* particle at (100,0) to the left, and a well has stepped a particle that
\* is exactly where the well is.
C25_Witness ==
  /\ well.steps = 1
  /\ well.well = GravityWell(0, 0, 10, 0, 50)
  /\ well.before = AtRest(100, 0)
  /\ well.elapsed = 16
  /\ well.now.vx = 0 - 800

C25_WitnessAtWell ==
  /\ well.steps = 1
  /\ well.well.power > 0 /\ well.elapsed > 0
  /\ well.before.x = well.well.x /\ well.before.y = well.well.y
  /\ well.now = well.before

\* C26: a child spawned from a parent that requests inheritance ends with
\* the value of its own template in every velocity Parameter the template
\* sets explicitly, the inherited values having been copied first.
C26_TemplateOverInherited ==
  (kin.spawned /\ kin.inherit # "none") =>
     /\ kin.data.vx.kind # "undefined" =>
           kin.child.x = FromData(kin.data.vx, Base)
     /\ kin.data.vy.kind # "undefined" =>
           kin.child.y = FromData(kin.data.vy, Base)

\* Sampled(c, t): what Graph.getValue gives for Parameter c at life t.
Sampled(c, t) == GetValue([value |-> c.value, control |-> c.control], t)

\* C27: right after a child is spawned from a parent whose emit.inherit is
\* { velocity: true }, the child's velocity.x and velocity.y equal the
\* parent's current ones in value, initial, delta, offset, min, max and
\* control, and so sample alike at every life fraction.
C27_VelocityInheritedWhole ==
  (kin.spawned /\ kin.inherit = "velocity") =>
     /\ kin.child.x = kin.parent.x
     /\ kin.child.y = kin.parent.y
     /\ \A t \in Percents :
           /\ Sampled(kin.child.x, t) = Sampled(kin.parent.x, t)
           /\ Sampled(kin.child.y, t) = Sampled(kin.parent.y, t)

\* A parent whose velocity.x has a curve, an initial and a delta, and whose
\* value the force has raised since it was spawned, has emitted a child
\* whose template says vx: 1, vy: 1: the child has the parent's velocity.
C27_Witness ==
  /\ kin.spawned /\ kin.inherit = "velocity" /\ kin.pushes = 2
  /\ kin.data = [vx |-> Number(1), vy |-> Number(1)]
  /\ kin.parent.x.control = ControlLinear
  /\ kin.parent.x.initial = 1 /\ kin.parent.x.delta = 1
  /\ kin.child.x.value = kin.parent.x.value
  /\ kin.child.x.value > 2

\* A parent with velocity.x.value 5 gives the child exactly 5.
C27_WitnessFive ==
  /\ kin.spawned /\ kin.inherit = "velocity" /\ kin.pushes = 0
  /\ kin.parent.x.value = 5 /\ kin.child.x.value = 5
  /\ kin.data.vx = Number(1)

\* Steady(k): the particle of step record k heads for a target, nothing
\* else moves it, and every frame of its life so far was as long as
\* physicsElapsed, a length that divides its lifespan.
Steady(k) ==
  /\ hist[steps[k].id].key \in TargetKeys
  /\ force = Zero /\ scrollSpeed = Zero
  /\ hist[steps[k].id].dts = {PhysicsElapsed}

\* Where the particle of step record k is, and where it is heading.
Position(k) == [x |-> steps[k].x, y |-> steps[k].y]
Destination(k) == DataList[hist[steps[k].id].key].target

C28_WitnessOnTheWay ==
  \E k \in 1..Len(steps) :
     /\ Steady(k)
     /\ hist[steps[k].id].key = "settler"
     /\ steps[k].life = 500
     /\ Position(k) = [x |-> 20, y |-> 40]

C30_RepeatsNeverStack ==
  /\ (op.name = "emit" /\ op.arg.ret # "null"
        /\ (op.arg.repeat > 0 \/ op.arg.repeat = 0 - 1)) =>
        op.arg.scheduled = 1
  /\ (op.name = "timer" /\ op.arg.event \in {"repeat", "loop"}) =>
        op.arg.scheduled = 0
  /\ made.schedules <= made.calls

\* A repeating event, scheduled by the one emit call that asked for a
\* repeat, has fired an emit that spawned a particle and scheduled nothing.
C30_Witness ==
  /\ op.name = "timer"
  /\ op.arg.event = "repeat"
  /\ op.arg.ret = "batch"
  /\ op.arg.scheduled = 0
  /\ spawns # <<>>
  /\ made = [calls |-> 1, schedules |-> 1]

\* C31: the child-emission accumulator of every particle is in [0, 1), and
\* a step of an alive particle with a non-negative rate whose child name
\* is a key makes one emitParticle call per whole unit of what it found in
\* the accumulator plus what the step added (nothing while the particle is
\* delayed), and leaves the fractional remainder.
C31_AccumulatorBelowOne ==
  /\ \A id \in 1..Len(parts) :
        parts[id].numToEmit >= 0 /\ parts[id].numToEmit < One
  /\ \A k \in 1..Len(steps) :
        (steps[k].alive /\ steps[k].rate >= 0) =>
           \E total \in {steps[k].numToEmit0
                           + (IF steps[k].delayed THEN 0
                              ELSE steps[k].rate * op.arg)} :
              /\ steps[k].children = total \div One
              /\ steps[k].numToEmit = total % One

\* A step of 500 ms at rate 0.002 found half a unit in the accumulator:
\* one child, and half a unit carried on.
C31_Witness ==
  \E k \in 1..Len(steps) :
     /\ steps[k].alive /\ ~steps[k].delayed
     /\ steps[k].rate = 2 /\ op.arg = 500
     /\ steps[k].numToEmit0 = 500
     /\ steps[k].children = 1
     /\ steps[k].numToEmit = 500

\* C32: a Transform.step at life 0 adds their deltas to the values of
\* scale.x, scale.y and rotation and samples them into calc, and leaves
\* the position and the velocity and acceleration Parameters as it found
\* them.
C32_FreshOnlyPosed ==
  (body.stepped /\ body.now.life = 0) =>
     /\ body.now.transform.x = body.before.transform.x
     /\ body.now.transform.y = body.before.transform.y
     /\ body.now.transform.velocity = body.before.transform.velocity
     /\ body.now.transform.acceleration = body.before.transform.acceleration
     /\ \A ab \in {<<body.before.transform.scale.x,
                       body.now.transform.scale.x>>,
                     <<body.before.transform.scale.y,
                       body.now.transform.scale.y>>,
                     <<body.before.transform.rotation,
                       body.now.transform.rotation>>} :
           /\ ab[2].value = ab[1].value + ab[1].delta
           /\ ab[2].calc = (ab[2].initial * One) + GetValue(ab[2], 0).value
           /\ [ab[2] EXCEPT !.value = 0, !.calc = 0]
                 = [ab[1] EXCEPT !.value = 0, !.calc = 0]

\* A step, not the one of the spawn, ran Transform.step at life 0 on a
\* particle with a velocity and an acceleration: the rotation has turned
\* by its delta and the particle is where it was.
C32_Witness ==
  /\ body.stepped /\ ~body.spawned /\ body.now.life = 0
  /\ body.before.transform.velocity.x.value # 0
  /\ body.before.transform.acceleration.x.value # 0
  /\ body.before.transform.scale.y.delta # 0
  /\ body.now.transform.scale.y.value
        = body.before.transform.scale.y.value + 1
  /\ body.now.transform.x = body.before.transform.x

\* The step that Particle.create makes: scale.x, with initial 1 and a
\* curve that starts at 1, is sampled at life 0.
C32_WitnessCreate ==
  /\ body.stepped /\ body.spawned /\ body.now.life = 0
  /\ body.now.transform.scale.x.control = ControlLinear
  /\ body.now.transform.scale.x.calc = 2 * One

\* C33: when an update that spawns nothing removes exactly one particle,
\* at index i of the active list, the particle that was last in the list
\* is at index i afterwards (unless the removed one was the last) and every
\* other survivor is at the index it had.
C33_SwapWithLast ==
  [][(op'.name = "update" /\ spawns' = <<>> /\ Len(list') = Len(list) - 1) =>
       \A i \in 1..Len(list) :
          (\A j \in 1..Len(list') : list'[j] # list[i]) =>
             /\ i < Len(list) => list'[i] = list[Len(list)]
             /\ \A j \in 1..(Len(list) - 1) : j # i => list'[j] = list[j]]_vars

\* C35: every update makes exactly one Particle.step call on each particle
\* that was in the active list when it began and none on any other; the
\* active list afterwards is the particles whose step returned true, in
\* the order they had, followed by the children spawned alive during the
\* update, in the order they were spawned, none of them stepped yet.
C35_EachSteppedOnce ==
  [][op'.name = "update" =>
       /\ Len(steps') = Len(list)
       /\ \A i \in 1..Len(list) :
             Cardinality({k \in 1..Len(steps') : steps'[k].id = list[i]}) = 1
       /\ \E stay \in {{steps'[k].id : k \in {n \in 1..Len(steps') :
                                                   steps'[n].ret}}} :
            \E born \in {SelectSeq(spawns', LAMBDA s : s.inList)} :
               /\ list' = SelectSeq(list, LAMBDA id : id \in stay)
                             \o [k \in 1..Len(born) |-> born[k].id]
               /\ \A k \in 1..Len(born) : hist'[born[k].id].steps = 0]_vars

\* An update has stepped two particles, one of which died and one of which
\* emitted a child: the child is the last of the active list and has not
\* been stepped.
C35_Witness ==
  /\ op.name = "update"
  /\ Len(steps) = 2
  /\ Len(kills) = 1
  /\ Len(spawns) = 1 /\ spawns[1].inList
  /\ list[Len(list)] = spawns[1].id
  /\ hist[spawns[1].id].steps = 0

\* C34: a particle that has just been reset and created from a template
\* at a position, whatever its earlier lives made of it, is in every
\* property (age, life, delay, keepAlive, isComplete, accumulator, emit,
\* position and every Parameter of its transform) what a particle just
\* constructed is after the same reset and create.
C34_ResetAsNew ==
  body.spawned =>
     body.now = ParticleCreate(NewBodyParticle, body.x, body.y,
                               BodyData[body.data])

\* A particle that had aged, completed, kept part of a child in its
\* accumulator, turned, accelerated and carried a curve on scale.x has
\* been spawned again from a template that sets none of these: the
\* Parameters the template leaves out are those of the BASE tables.
C34_Witness ==
  /\ body.spawned /\ body.lives = 2
  /\ body.worn.age > 0 /\ body.worn.life = One /\ body.worn.isComplete
  /\ body.worn.numToEmit > 0
  /\ body.worn.transform.rotation.value > 0
  /\ body.worn.transform.acceleration.y.value > 1
  /\ body.worn.transform.scale.x.control = ControlLinear
  /\ body.data = "immortal"
  /\ body.now.transform.acceleration.y = Base
  /\ body.now.transform.scale.x = Base1
  /\ body.now.numToEmit = 0 /\ body.now.age = 0 /\ ~body.now.isComplete

\* C36: the particle that Emitter.emit(key, x, y) without config returns
\* has the delay of its template and delayVisible false, whatever the
\* config of an earlier emit call was.
C36_NoConfigTemplateDelay ==
  (op.name = "emit" /\ op.arg.ret = "particle") =>
     \A k \in 1..Len(spawns) :
        /\ parts[spawns[k].id].delay = DataList[spawns[k].key].delay
        /\ ~parts[spawns[k].id].delayVisible

\* C37: since a particle's life started, no entry of its emission `at`
\* list has been counted by updateFrequency more than once.
C37_AtEntryOnce ==
  \A id \in 1..Len(parts) :
     \A i \in 1..Len(hist[id].triggers) : hist[id].triggers[i] <= 1

\* C38: an update leaves the position and the velocity of every particle
\* that is still delayed after it (its step returned while age < delay) as
\* they were before the update.
C38_DelayedUntouched ==
  [][op'.name = "update" =>
       \A k \in 1..Len(steps') :
          steps'[k].delayed =>
             /\ parts'[steps'[k].id].x = parts[steps'[k].id].x
             /\ parts'[steps'[k].id].y = parts[steps'[k].id].y
             /\ parts'[steps'[k].id].vx = parts[steps'[k].id].vx
             /\ parts'[steps'[k].id].vy = parts[steps'[k].id].vy]_vars

\* C39: every step of a particle with lifespan 0, no delay and a velocity
\* other than zero moves the particle by that velocity.
C39_ImmortalMoves ==
  (/\ body.stepped /\ ~body.spawned
   /\ body.now.lifespan = 0
   /\ BodyData[body.data].delay = 0
   /\ \/ Whole(body.now.transform.velocity.x, body.now.life) # 0
      \/ Whole(body.now.transform.velocity.y, body.now.life) # 0) =>
     /\ body.now.transform.x
           = body.before.transform.x
             + Whole(body.now.transform.velocity.x, body.now.life)
     /\ body.now.transform.y
           = body.before.transform.y
             + Whole(body.now.transform.velocity.y, body.now.life)

\* C40: after Emitter.destroy, an emission that was scheduled on the
\* emitter's timer before the destroy (a repeat of emit, or emitDelayed)
\* and fires afterwards adds no particle to the active list and raises no
\* error.
C40_LateEmitHarmless ==
  (op.name = "timer" /\ renderer = Null) => (error = "" /\ list = <<>>)

====
